---- MODULE Spec2Model ----
(***************************************************************************)
(* Cycle orchestrator (app/core/bablo_bot.py) and the dev-wallet mutex     *)
(* (app/core/wallet_manager.py) as a state machine.  Every worker position *)
(* (pc) is a suspension point (an await) of Bablo.working_loop; an action  *)
(* is the code that runs between two suspension points of the single       *)
(* threaded asyncio loop.                                                  *)
(***************************************************************************)
EXTENDS Integers, Sequences, FiniteSets, TLC

\* ---- bounds of the model (not program constants) ----
MaxStarts == 2
MaxIterations == 2
MaxUserCalls == 2
MaxConnects == 2
MaxNotifs == 2
MaxWaits == 5
MaxAttempts == 6
MaxFetches == 3
MaxConfirmRetries == 2
MaxUpdates == 3
MaxSetConfigs == 1
MaxWallets == 4
MaxTasks == 3
MaxBablos == 2

\* ---- program constants ----
\* default max_retries of SolanaClient.build_and_send_transaction
DefaultMaxRetries == 3
\* cycle_timeout_sec values the operator may configure: 0 and a positive one
TimeoutChoices == {0, 5}
Modes == {"manual", "auto"}
\* LAUNCH_COST_LAMPORTS
LAUNCH_COST_LAMPORTS == 201570260
\* self.lamports_amount = sol_to_lamports(wsol_amount_ui) for wsol_amount_ui 0.20
LamportsAmount == 200000000
\* seed_target of working_loop
SeedTarget == LamportsAmount + LAUNCH_COST_LAMPORTS
\* dev balances the RPC may report: empty, 0.35 SOL short, exactly the target
DevBalances == {0, SeedTarget - 350000000, SeedTarget}

VARIABLES
  cfg,          \* Bablo._cfg: [mode, cycle_timeout_sec]
  stopEvent,    \* Bablo._stop_event
  worker,       \* Bablo._worker_task: "none" | "running" | "done"
  pc,           \* suspension point of working_loop
  cancelReq,    \* _worker_task.cancel() requested and not yet delivered
  attempt,      \* loop variable of build_and_send_transaction in flight
  sent,         \* per iteration: network submissions of each transaction
  returned,     \* per iteration: build_and_send calls that returned normally
  failedAt,     \* of the current worker's iteration: the step whose
                \* build_and_send raised or failed its last attempt, or "none"
  pnlTask,      \* local pnl_task of _cycle_with_dev
  timerTask,    \* local timer_task
  pnlWaitTask,  \* local pnl_wait_task
  pnlEvent,     \* local pnl_event
  wsStop,       \* local ws_stop
  profitSeen,   \* a vault update reaching the threshold arrived while the
                \* cycle was waiting and the timer had not expired
  expired,      \* asyncio.wait of this iteration returned with the timer done
  leaked,       \* live tasks of earlier iterations that nothing references
  excAlerts,    \* on_alert calls made by the except Exception clause of the
                \* working_loop started last
  stopPc,       \* caller of Bablo.stop(): "idle" | "await_worker" | "returned"
  stopHit,      \* pc at which stop() cancelled the worker ("none" if not)
  starts,       \* number of effective start() calls
  iters,        \* number of loop iterations begun by the current worker
  locked,       \* WalletManager._dev_lock._locked
  waiters,      \* WalletManager._dev_lock._waiters (FIFO of callers)
  woken,        \* the first waiter's future has its result set
  upc,          \* position of each locked WalletManager method call
  ucalls,       \* number of WalletManager method calls made by other tasks
  dev,          \* WalletManager._dev: serial number of the keypair it holds
  devSnapshot,  \* _DevCycleCtx.dev_snapshot of this iteration (-1: None)
  bal,          \* local bal of _ensure_dev_funded_for (-1: not read yet)
  fundIx,       \* transfer instruction built by _distribute_lamports_unlocked
  \* -- WsHub (app/core/ws_hub.py) --
  hubArgs,      \* arguments of the running _runner: [pubkey, commitment]
  hubPc,        \* position of _runner
  hubTask,      \* WsHub._task is set (the runner was created by start())
  hubStop,      \* WsHub._stop
  hubCancelReq, \* _task.cancel() requested and not yet delivered
  connOpen,     \* the websocket of the current `async with` is open
  conns,        \* connections opened so far
  subs,         \* accountSubscribe payloads sent, in order
  reader,       \* task running _read_loop
  pinger,       \* task running _ping_loop
  prevLamports, \* local prev_lamports of _runner (-1: None)
  prev,         \* local prev of _read_loop (-1: None)
  notifs,       \* lamport values of the account notifications received
  calls,        \* arguments of the on_change calls made, in order
  handlerErrs,  \* on_change calls that raised
  delay,        \* seconds*1000 slept before the pending connect (0: none)
  \* -- AsyncRateLimiter (app/core/client.py) --
  limCalls,     \* AsyncRateLimiter.calls, each entry as its age in ticks
  limPc,        \* position of each caller of wait()
  recent,       \* ages of the wait() calls completed less than a window ago
  limOpen,      \* tasks may still begin new wait() calls
  limCompleted, \* wait() calls completed, counted up to MaxWaits
  \* -- SolanaClient._execute_with_retry (app/core/client.py) --
  retryPc,      \* position of _execute_with_retry
  retryAttempts, \* func() calls made by the running _execute_with_retry
  backoffCurrent, \* ExponentialBackoff._current, in milliseconds
  lastOutcome,  \* what the last func() call came back with
  sleepBase,    \* backoff._current when delay() was last entered, ms
  sleepActual,  \* what that delay() slept, ms
  \* -- SolanaClient blockhash cache (app/core/client.py) --
  bhCached,     \* _cached_blockhash: serial of the fetched hash (-1: None)
  bhAge,        \* time.monotonic() - _cached_blockhash_ts, whole seconds
  bhPc,         \* position of each caller of get_latest_blockhash
  bhFetches,    \* get_latest_blockhash RPC requests made
  bhRequest,    \* commitment of the last RPC request ("": none made)
  bhLastCall,   \* the cache as the last call found it, and what it did
  bhLastRet,    \* what the last completed call returned
  bhServed,     \* serial of the hash in each caller's RPC response (-1: none)
  bhIssued,     \* serial of the newest hash the node has answered with
  bhNewest,     \* newest serial any call has returned (-1: none)
  \* -- SolanaClient.build_and_send_transaction (app/core/client.py) --
  bsArgs, \* arguments of the call: [max_retries, max_confirm_retries, jito, size]
  bsPc, \* position of build_and_send_transaction
  bsAttempt, \* loop variable `attempt`
  bsSends, \* submissions of the transaction to the network
  bsPolls, \* get_signature_statuses polls of the running confirm_transaction
  bsObserved, \* a poll saw a status with confirmations not None
  bsSuccess, \* local `success`
  bsSlept, \* sleeps of the except clause: [attempt, ms]
  bsFailed, \* attempts that ended in the except clause
  \* -- WalletManager._gross_net_for_target_net (backend/app/core/wallet_manager.py) --
  plan, \* the last call: [target_net, fee_bps, max_gross, max_fee, result]
  \* -- WalletManager.hide_supply (backend/app/core/wallet_manager.py) --
  hsPc, \* position of hide_supply
  hsTodo, \* instructions still to be pushed, in order
  batchIxs, \* batch_ixs
  batchSigners, \* batch_signers, as wallet numbers (0: dev, i: i-th temp wallet)
  hsSigs, \* sigs: "sig" for a transaction that went through, "" for a failed one
  hsResult, \* what hide_supply returned
  hsPlan, \* hops, target_machine, last_net and burn_delta of the call
  hsPushed, \* every instruction pushed so far, in order
  held, \* token balance of dev (0) and of each temp wallet (1, 2, ...)
  \* -- Bablo._monitor_pnl_wrapper.on_value (app/core/bablo_bot.py) --
  ovInit, \* init_sol of the wrapper, in lamports (-1: wrapper not started)
  ovThreshold, \* self._cfg.profit_threshold_sol, in lamports
  ovUpdates, \* lamport values on_value was called with
  ovEvent, \* the profit event passed to the wrapper
  \* -- BabloController.set_param (app/bot/controller.py) --
  ctl, \* self.cfg.bablo of the controller: [mode, cycle_timeout_sec]
  ctlSaved, \* the configuration save_config wrote last
  ctlLast, \* the last set_param call: [key, value, before, error]
  \* -- Bablo.set_config (app/core/bablo_bot.py) --
  setConfigs, \* set_config calls made
  setConfigRaised, \* the last set_config call raised
  \* -- Bablo._prepare_liquidity_pool (app/core/bablo_bot.py) --
  pool, \* self.pool: the descriptor built last (NoPool: none)
  \* -- WalletManager._gross_net_for_target_net, its loop pass by pass --
  lpArgs, \* arguments of the call (NoLpArgs: no call yet)
  lpPc, \* "idle", "loop" (at the while test), "after" (past the loop) or "done"
  lpG, \* g
  lpHop, \* hop
  lpList, \* gross_list
  lpBroke, \* the loop was left by its break
  lpResult, \* what the call returned or raised
  \* -- WalletManager.distribute_via_chain (backend/app/core/wallet_manager.py) --
  dvcArgs, \* base_amount and fee_lamports of the call (NoChainArgs: none)
  dvcPc, \* "idle", "submit", "inflight", "done" or "failed"
  dvcHop, \* build_and_send_transaction calls that have come back
  dvcSubmitted, \* the transfers handed to build_and_send_transaction, in order
  dvcLanded, \* hops whose transaction the chain has executed
  dvcBal, \* lamports of fund (0), tmp1..tmp3 (1..3) and the destination (4)
  dvcOk, \* overall_ok
  \* -- WalletManager: keypairs and the files that hold them --
  wmPc, \* "none" (not constructed), "ready" or "broken" (__init__ raised)
  wmMade, \* keypairs generated so far; keypair k is the k-th, fund is 0
  wmDisk, \* keypairs whose file has been written
  wmDev, \* self._dev (-1: not assigned)
  wmTemps, \* temp wallets _create_temp_wallet has returned
  wmTargets, \* keypairs some submitted transfer pays into
  \* -- Bablo.start / Bablo.stop: the working-loop tasks of one Bablo --
  lcTasks, \* state of every task create_task has made: "none" (not made), "running", "cancelling" (cancel() requested) or "done"
  lcWorker, \* self._worker_task: a task id, 0 for None
  lcStopEvent, \* self._stop_event
  lcStopPc, \* each caller of stop(): "idle" or "await_worker"
  lcAwaited, \* the task a caller of stop() is awaiting (0: none)
  lcStopped, \* a stop() call has returned since the last task was made
  lcLast, \* the last start() call: what it found and what it did
  \* -- BabloController: run_once, stop and the autorun loop on one event loop --
  bcCtl, \* "none" before BabloController(...), then "ready"
  bcSendSuspends, \* _send awaits the network (a bot and an admin chat are set); FALSE: facade._send returns at once
  bcBablo, \* self.bablo: 0 for None, else the k-th Bablo built
  bcBuilt, \* number of Bablo objects _build_bablo has made
  bcWorker, \* _worker_task of each Bablo: "none", "running", "cancelling", "done"
  bcWaiters, \* tasks awaiting each worker task, in the order they began to wait
  bcLocked, \* self._run_lock._locked
  bcLockWaiters, \* self._run_lock._waiters
  bcReady, \* the event loop's ready queue of controller tasks
  bcSt, \* each task: "idle", "ready", "running", or suspended on "io", "lock", "worker"
  bcPc, \* each task: the code it runs next
  bcRaised \* tasks whose run_once raised AttributeError on self.bablo.start()

cycleVars == <<attempt, sent, returned, failedAt, pnlTask, timerTask,
               pnlWaitTask, pnlEvent, wsStop, profitSeen, expired, leaked>>
workVars  == <<cfg, stopEvent, worker, pc, cancelReq, excAlerts, iters, starts>>
stopVars  == <<stopPc, stopHit>>
lockVars  == <<locked, waiters, woken>>
userVars  == <<upc, ucalls>>
fundVars  == <<devSnapshot, bal, fundIx>>
hubVars   == <<hubArgs, hubPc, hubTask, hubStop, hubCancelReq, connOpen,
               conns, subs, reader, pinger, prevLamports, prev, notifs, calls,
               handlerErrs, delay>>
limVars   == <<limCalls, limPc, recent, limOpen, limCompleted>>
retryVars == <<retryPc, retryAttempts, backoffCurrent, lastOutcome, sleepBase,
               sleepActual>>
bhVars    == <<bhCached, bhAge, bhPc, bhFetches, bhRequest, bhLastCall, bhLastRet,
               bhServed, bhIssued, bhNewest>>
sendVars == <<bsArgs, bsPc, bsAttempt, bsSends, bsPolls, bsObserved,
             bsSuccess, bsSlept, bsFailed>>
planVars == <<plan>>
hideVars == <<hsPc, hsTodo, batchIxs, batchSigners, hsSigs, hsResult, hsPlan,
              hsPushed, held>>
pnlVars == <<ovInit, ovThreshold, ovUpdates, ovEvent>>
ctlVars == <<ctl, ctlSaved, ctlLast>>
setCfgVars == <<setConfigs, setConfigRaised>>
poolVars == <<pool>>
lpVars == <<lpArgs, lpPc, lpG, lpHop, lpList, lpBroke, lpResult>>
dvcVars == <<dvcArgs, dvcPc, dvcHop, dvcSubmitted, dvcLanded, dvcBal, dvcOk>>
wmVars == <<wmPc, wmMade, wmDisk, wmDev, wmTemps, wmTargets>>
lcVars == <<lcTasks, lcWorker, lcStopEvent, lcStopPc, lcAwaited, lcStopped,
             lcLast>>
bcVars == <<bcCtl, bcSendSuspends, bcBablo, bcBuilt, bcWorker, bcWaiters,
             bcLocked, bcLockWaiters, bcReady, bcSt, bcPc, bcRaised>>
extVars   == <<hubVars, limVars, retryVars, bhVars, sendVars, planVars,
             hideVars, pnlVars, ctlVars, setCfgVars, poolVars, lpVars,
             dvcVars, wmVars, lcVars, bcVars>>
coreVars  == <<cycleVars, workVars, stopVars, lockVars, userVars, dev, fundVars>>
hubOthers == <<coreVars, limVars, retryVars, bhVars, sendVars, planVars,
             hideVars, pnlVars, ctlVars, setCfgVars, poolVars, lpVars,
             dvcVars, wmVars, lcVars, bcVars>>
limOthers == <<coreVars, hubVars, retryVars, bhVars, sendVars, planVars,
             hideVars, pnlVars, ctlVars, setCfgVars, poolVars, lpVars,
             dvcVars, wmVars, lcVars, bcVars>>
retryOthers == <<coreVars, hubVars, limVars, bhVars, sendVars, planVars,
             hideVars, pnlVars, ctlVars, setCfgVars, poolVars, lpVars,
             dvcVars, wmVars, lcVars, bcVars>>
bhOthers == <<coreVars, hubVars, limVars, retryVars, sendVars, planVars,
             hideVars, pnlVars, ctlVars, setCfgVars, poolVars, lpVars,
             dvcVars, wmVars, lcVars, bcVars>>
sendOthers == <<coreVars, hubVars, limVars, retryVars, bhVars, planVars,
             hideVars, pnlVars, ctlVars, setCfgVars, poolVars, lpVars,
             dvcVars, wmVars, lcVars, bcVars>>
planOthers == <<coreVars, hubVars, limVars, retryVars, bhVars, sendVars,
             hideVars, pnlVars, ctlVars, setCfgVars, poolVars, lpVars,
             dvcVars, wmVars, lcVars, bcVars>>
hideOthers == <<coreVars, hubVars, limVars, retryVars, bhVars, sendVars,
             planVars, pnlVars, ctlVars, setCfgVars, poolVars, lpVars,
             dvcVars, wmVars, lcVars, bcVars>>
pnlOthers == <<coreVars, hubVars, limVars, retryVars, bhVars, sendVars,
             planVars, hideVars, ctlVars, setCfgVars, poolVars, lpVars,
             dvcVars, wmVars, lcVars, bcVars>>
ctlOthers == <<coreVars, hubVars, limVars, retryVars, bhVars, sendVars,
             planVars, hideVars, pnlVars, setCfgVars, poolVars, lpVars,
             dvcVars, wmVars, lcVars, bcVars>>
setCfgOthers == <<hubVars, limVars, retryVars, bhVars, sendVars, planVars,
             hideVars, pnlVars, ctlVars, poolVars, lpVars, dvcVars, wmVars,
             lcVars, bcVars>>
poolOthers == <<coreVars, hubVars, limVars, retryVars, bhVars, sendVars,
             planVars, hideVars, pnlVars, ctlVars, setCfgVars, lpVars,
             dvcVars, wmVars, lcVars, bcVars>>
lpOthers == <<coreVars, hubVars, limVars, retryVars, bhVars, sendVars,
             planVars, hideVars, pnlVars, ctlVars, setCfgVars, poolVars,
             dvcVars, wmVars, lcVars, bcVars>>
dvcOthers == <<coreVars, hubVars, limVars, retryVars, bhVars, sendVars,
             planVars, hideVars, pnlVars, ctlVars, setCfgVars, poolVars,
             lpVars, wmVars, lcVars, bcVars>>
wmOthers == <<coreVars, hubVars, limVars, retryVars, bhVars, sendVars,
             planVars, hideVars, pnlVars, ctlVars, setCfgVars, poolVars,
             lpVars, dvcVars, lcVars, bcVars>>
lcOthers == <<coreVars, hubVars, limVars, retryVars, bhVars, sendVars,
             planVars, hideVars, pnlVars, ctlVars, setCfgVars, poolVars,
             lpVars, dvcVars, wmVars, bcVars>>
bcOthers == <<coreVars, hubVars, limVars, retryVars, bhVars, sendVars,
             planVars, hideVars, pnlVars, ctlVars, setCfgVars, poolVars,
             lpVars, dvcVars, wmVars, lcVars>>
vars == <<cycleVars, workVars, stopVars, lockVars, userVars, dev, fundVars,
          extVars>>

\* ---- positions ----
TxSteps == {"fund_transfer", "create_token", "init_pool", "withdraw"}
SaySteps == {"say_meta", "say_funded", "say_mint", "say_pool", "say_withdraw"}
AwaitChildPcs == {"cancel_pending", "await_pnl",
                  "finally_await_pnl_cancel", "finally_await_pnl_error"}
\* positions inside the try block of _cycle_with_dev
InCycle == {"cycle_balance", "create_token", "say_mint", "init_pool",
            "say_pool", "wait", "withdraw", "say_withdraw"} \cup AwaitChildPcs
\* positions inside `async with self._wm.dev_cycle()`
LockHeldPcs == InCycle \cup {"fund_balance", "fund_transfer", "say_funded"}
AllPcs == LockHeldPcs \cup {"created", "next_ca", "sleep_noca", "copy_meta",
            "say_meta", "lock_wait", "auto_sleep", "alert", "end"}

Users == {"distribute_lamports", "withdraw_to_fund", "rollover_dev"}

Alive(t) == t \in {"pending", "sleeping", "waiting", "subscribed", "cancelling"}

\* ---- keyword binding of the call in _monitor_pnl_wrapper ----
\* keyword parameters WsHub.monitor_account_lamports declares
MonitorKeywordParams == {"on_change", "commitment", "emit_initial"}
\* of these, the ones without a default
MonitorRequiredParams == {"on_change"}
\* keywords _monitor_pnl_wrapper passes
PnlCallKeywords == {"on_change", "stop_event"}
\* Python binds the call iff no keyword is unknown and none required is missing
CallBinds(passed, declared, required) ==
  passed \subseteq declared /\ required \subseteq passed

\* first step of the task running _monitor_pnl_wrapper: a call that does not
\* bind raises TypeError, which `except asyncio.CancelledError` does not catch
PnlFirstStep ==
  IF CallBinds(PnlCallKeywords, MonitorKeywordParams, MonitorRequiredParams)
  THEN "subscribed" ELSE "failed"

\* `try: await t / except asyncio.CancelledError: pass` on a finished task t
AwaitOutcome(t) == IF t = "failed" THEN "raise" ELSE "pass"

\* max_retries each call site passes to build_and_send_transaction
MaxRetries(step) == IF step = "init_pool" THEN DefaultMaxRetries ELSE 1

\* `if attempt == max_retries - 1: raise` in the except clause of an attempt
\* (variant: the raise is missing)
LastAttemptNeverRaises(a, step) == FALSE
LastAttempt(a, step) == a = MaxRetries(step) - 1

\* straight-line order of the awaits of one loop iteration
\* (variant: _initialize_pool is not awaited before the monitor is spawned)
StepAfterSkipsPool(step) ==
  CASE step = "say_meta"      -> "lock_acquire"
    [] step = "fund_transfer" -> "say_funded"
    [] step = "say_funded"    -> "cycle_balance"
    [] step = "cycle_balance" -> "create_token"
    [] step = "create_token"  -> "say_mint"
    [] step = "say_mint"      -> "say_pool"
    [] step = "init_pool"     -> "say_pool"
    [] step = "say_pool"      -> "wait"
    [] step = "withdraw"      -> "say_withdraw"
    [] step = "say_withdraw"  -> "cycle_exit"
StepAfter(step) ==
  CASE step = "say_meta"      -> "lock_acquire"
    [] step = "fund_transfer" -> "say_funded"
    [] step = "say_funded"    -> "cycle_balance"
    [] step = "cycle_balance" -> "create_token"
    [] step = "create_token"  -> "say_mint"
    [] step = "say_mint"      -> "init_pool"
    [] step = "init_pool"     -> "say_pool"
    [] step = "say_pool"      -> "wait"
    [] step = "withdraw"      -> "say_withdraw"
    [] step = "say_withdraw"  -> "cycle_exit"

\* ---- asyncio.Lock behind WalletManager._dev_lock ----
\* a queued acquire whose future was cancelled before it got a result
WaiterCancelled(w) ==
  w = "cycle" /\ cancelReq /\ ~(woken /\ Head(waiters) = "cycle")

\* fast path of acquire(): not locked and every queued waiter is cancelled
\* (variant: the holder is not looked at)
LockFreeIgnoresHolder ==
  \A i \in 1..Len(waiters) : WaiterCancelled(waiters[i])
LockFree ==
  ~locked /\ \A i \in 1..Len(waiters) : WaiterCancelled(waiters[i])

\* _wake_up_first(): the first waiter gets a result unless its future is done
WakeUpFirst(ws) == ws # <<>> /\ ~WaiterCancelled(Head(ws))

RemoveWaiter(ws, w) == SelectSeq(ws, LAMBDA x : x # w)

\* `async with self._dev_lock` / dev_cycle().__aexit__: release()
Release ==
  /\ locked' = FALSE
  /\ waiters' = waiters
  /\ woken' = WakeUpFirst(waiters)

\* ---- funding check of _ensure_dev_funded_for ----
\* (variant: the whole target is sent whatever the balance)
ShortfallIgnoresBalance(target, b) == target
\* shortfall = max(0, target_lamports - bal)
Shortfall(target, b) == IF target - b > 0 THEN target - b ELSE 0

\* no transfer instruction built
NoIx == [to |-> -1, lamports |-> 0]
\* transfer(TransferParams(from_pubkey=fund, to_pubkey=self.dev_pubkey, lamports))
TransferIx(lamports) == [to |-> dev, lamports |-> lamports]

\* rollover_dev calls update_dev() as soon as it holds the lock
DevOnEntry(u) == IF u = "rollover_dev" THEN dev + 1 ELSE dev

\* ---- WsHub ----
NoArgs == [pubkey |-> "", commitment |-> ""]
\* arguments a caller may pass to start() / monitor_account_lamports()
Pubkeys == {"vaultA", "vaultB"}
Commitments == {"processed", "confirmed"}
\* lamport values an account notification may carry
LamportValues == {1, 2}
\* a message that is not JSON, has no params or has no lamports field
NotANotification == -1

\* payload of _subscribe_account
\* (variant: the commitment argument is dropped for the default)
SubscribePayloadDefaultCommitment(pubkey, commitment) ==
  [method |-> "accountSubscribe", pubkey |-> pubkey,
   encoding |-> "jsonParsed", commitment |-> "processed"]
SubscribePayload(pubkey, commitment) ==
  [method |-> "accountSubscribe", pubkey |-> pubkey,
   encoding |-> "jsonParsed", commitment |-> commitment]

\* WsHub._should_emit(current, prev)
ShouldEmit(current, p) == p = -1 \/ current # p

\* backoff_min, backoff_max of _runner, in milliseconds
BackoffMinMs == 500
BackoffMaxMs == 10000
\* random.randint(1, 4)
BackoffExponents == 1..4
\* delay = min(backoff_max, backoff_min * (1.7 ** k)), in whole milliseconds
BackoffDelay(k) ==
  LET d == (BackoffMinMs * 17^k) \div 10^k IN
  IF d < BackoffMaxMs THEN d ELSE BackoffMaxMs

\* `try: await on_change(lamports) / except Exception: log` in _read_loop
\* (variant: the exception leaves _read_loop)
HandlerOutcomePropagates(ok) == IF ok THEN "running" ELSE "raised"
HandlerOutcome(ok) == "running"

\* WsHub.__init__; the locals of _runner and _read_loop before they run
InitHub ==
  /\ hubArgs = NoArgs
  /\ hubPc = "idle"
  /\ hubTask = FALSE
  /\ hubStop = FALSE
  /\ hubCancelReq = FALSE
  /\ connOpen = FALSE
  /\ conns = 0
  /\ subs = <<>>
  /\ reader = "none"
  /\ pinger = "none"
  /\ prevLamports = -1
  /\ prev = -1
  /\ notifs = <<>>
  /\ calls = <<>>
  /\ handlerErrs = 0
  /\ delay = 0

\* ---- AsyncRateLimiter ----
\* time is counted in ticks of 0.01 s, the longest sleep of wait()
\* max_calls and per_seconds (in ticks) of the limiter under study
LimMaxCalls == 2
LimPerTicks == 3
LimCallers == {"a", "b", "c"}

\* AsyncRateLimiter.__init__
InitLimiter ==
  /\ limCalls = <<>>
  /\ limPc = [c \in LimCallers |-> "idle"]
  /\ recent = <<>>
  /\ limOpen = TRUE
  /\ limCompleted = 0

\* `if elapsed < self.per_seconds`: the oldest call is still inside the window
\* (variant: the window is taken one tick too short)
InWindowShort(elapsed) == elapsed < LimPerTicks - 1
InWindow(elapsed) == elapsed < LimPerTicks

\* the else branch of the while loop, repeated: popleft() while the deque is
\* full and its oldest entry has left the window
RECURSIVE PopExpired(_)
PopExpired(q) ==
  IF Len(q) >= LimMaxCalls /\ ~InWindow(Head(q))
  THEN PopExpired(Tail(q)) ELSE q

\* ages after one tick; an age is not counted beyond the window length
AgeOne(q) == [i \in 1..Len(q) |-> IF q[i] < LimPerTicks THEN q[i] + 1 ELSE q[i]]

\* ---- SolanaClient._execute_with_retry ----
\* ExponentialBackoff(min_delay=0.2, max_delay=5.0, factor=2.0), milliseconds
BackoffMinDelayMs == 200
BackoffMaxDelayMs == 5000
BackoffFactor == 2

\* error messages of an RPC response, as the words they are made of
ErrorMessages == {<<"Server", "responded", "429">>,
                  <<"Too", "Many", "Requests">>,
                  <<"Too", "Many", "Open", "Requests">>,
                  <<"Blockhash", "not", "found">>}
\* status codes of an httpx.HTTPStatusError
HttpStatuses == {429, 403, 500}

NoOutcome == [kind |-> "none", msg |-> <<>>, status |-> 0]
\* what `await func()` can come back with: a result without error, a result
\* with an error, an httpx.HTTPStatusError, any other exception
FuncOutcomes ==
  {[kind |-> "ok", msg |-> <<>>, status |-> 0]}
    \cup {[kind |-> "rpc_error", msg |-> m, status |-> 0] : m \in ErrorMessages}
    \cup {[kind |-> "http_error", msg |-> <<>>, status |-> st] : st \in HttpStatuses}
    \cup {[kind |-> "other_exception", msg |-> <<>>, status |-> 0]}

\* `text in msg`: text occurs in msg as one piece
Contains(msg, text) ==
  \E i \in 1..Len(msg) :
    /\ i + Len(text) - 1 <= Len(msg)
    /\ \A j \in 1..Len(text) : msg[i + j - 1] = text[j]

\* the two tests that lead to `await backoff.delay(); continue`
\* (variant: only the HTTP status is looked at)
RateLimitedHttpOnly(o) == o.kind = "http_error" /\ o.status = 429
RateLimited(o) ==
  \/ o.kind = "rpc_error"
     /\ \/ Contains(o.msg, <<"429">>)
        \/ Contains(o.msg, <<"Too", "Many", "Requests">>)
  \/ o.kind = "http_error" /\ o.status = 429

\* random.uniform(1 - jitter, 1 + jitter) with jitter=0.2, in thousandths
JitterChoices == {800, 1000, 1200}

\* ExponentialBackoff.delay(): delay = min(self._current * jitter, max_delay)
SleepDelay(current, jitter) ==
  IF (current * jitter) \div 1000 < BackoffMaxDelayMs
  THEN (current * jitter) \div 1000 ELSE BackoffMaxDelayMs

\* ExponentialBackoff.delay(): self._current = min(current * factor, max_delay)
BackoffNext(current) ==
  IF current * BackoffFactor < BackoffMaxDelayMs
  THEN current * BackoffFactor ELSE BackoffMaxDelayMs

InitRetry ==
  /\ retryPc = "idle"
  /\ retryAttempts = 0
  /\ backoffCurrent = BackoffMinDelayMs
  /\ lastOutcome = NoOutcome
  /\ sleepBase = 0
  /\ sleepActual = 0

\* ---- SolanaClient blockhash cache ----
\* self._blockhash_ttl_s
BlockhashTtl == 15
BhCallers == {"a", "b"}
\* commitment=Processed, the default every call site leaves in place
DefaultCommitment == "processed"

\* `(now - self._cached_blockhash_ts) > self._blockhash_ttl_s`
\* (variant: one second more is tolerated)
StaleLate(age) == age > BlockhashTtl + 1
Stale(age) == age > BlockhashTtl

\* the later issued of two hash serials
Newer(a, b) == IF a < b THEN b ELSE a

NoCall == [made |-> FALSE, empty |-> FALSE, age |-> 0, rpc |-> FALSE]
NoRet == [made |-> FALSE, fromCache |-> FALSE, age |-> 0, value |-> -1]

InitBlockhash ==
  /\ bhCached = -1
  /\ bhAge = 0
  /\ bhPc = [c \in BhCallers |-> "idle"]
  /\ bhFetches = 0
  /\ bhRequest = ""
  /\ bhLastCall = NoCall
  /\ bhLastRet = NoRet
  /\ bhServed = [c \in BhCallers |-> -1]
  /\ bhIssued = 0
  /\ bhNewest = -1


\* ---- SolanaClient.build_and_send_transaction ----
\* max_retries the call sites pass (1, or the default), and 0
SendRetryChoices == {0, 1, DefaultMaxRetries}
\* max_confirm_retries
ConfirmRetryChoices == 0..MaxConfirmRetries
\* len(bytes(transaction)): the packet limit and one byte more
PacketSize == 1232
TxSizes == {PacketSize, PacketSize + 1}
NoSendArgs == [max_retries |-> 0, max_confirm_retries |-> 0, jito |-> FALSE,
               size |-> 0]

\* wait_time = 0.5 ** attempt, in milliseconds
\* (variant: the same wait after every attempt)
WaitTimeConstant(a) == 1000
WaitTimeMs(a) == 1000 \div (2 ^ a)

InitSend ==
  /\ bsArgs = NoSendArgs
  /\ bsPc = "idle"
  /\ bsAttempt = 0
  /\ bsSends = 0
  /\ bsPolls = 0
  /\ bsObserved = FALSE
  /\ bsSuccess = FALSE
  /\ bsSlept = <<>>
  /\ bsFailed = {}


\* ---- WalletManager._gross_net_for_target_net ----
MAX_HOPS == 100
\* max_fee=None
NoMaxFee == -1
PlanTargets == {0, 400000, 500000, 700000, 900000, 1000000}
PlanFeeBps == {0, 1000, 2000}
PlanMaxGross == {10, 1000000}
PlanMaxFees == {NoMaxFee, 0, 50000}

\* fee = (g * fee_bps) // 10_000, capped by max_fee unless max_fee == 0
FeeOf(g, bps, maxFee) ==
  LET f == (g * bps) \div 10000 IN
  IF maxFee = 0 \/ f <= maxFee THEN f ELSE maxFee

\* net = g - fee; if net < 0: net = 0
NetOf(g, bps, maxFee) ==
  LET n == g - FeeOf(g, bps, maxFee) IN IF n < 0 THEN 0 ELSE n

\* the break test of the while loop
LoopBreaks(net, target) == net <= target \/ net = 0

\* the while loop: [hop, gross_list] when it is left
RECURSIVE PlanLoop(_, _, _, _, _, _)
PlanLoop(g, hop, acc, target, bps, maxFee) ==
  IF g > 0 /\ hop < MAX_HOPS
  THEN LET net == NetOf(g, bps, maxFee) IN
       IF LoopBreaks(net, target)
       THEN [hop |-> hop + 1, gross |-> acc]
       ELSE PlanLoop(net, hop + 1, Append(acc, g), target, bps, maxFee)
  ELSE [hop |-> hop, gross |-> acc]

\* the continuity check after the loop, which leaves max_fee out
Continuous(l, bps) ==
  \A i \in 1..(Len(l) - 1) : l[i + 1] = l[i] - (l[i] * bps) \div 10000

Returns(l) == [kind |-> "list", gross |-> l]
Raises(e) == [kind |-> e, gross |-> <<>>]

GrossNetForTargetNet(target, bps, maxGross, maxFee) ==
  IF target <= 0 THEN Returns(<<>>)
  ELSE IF maxGross <= 0 THEN Returns(<<>>)
  ELSE IF bps < 0 \/ bps > 100000 THEN Raises("ValueError")
  ELSE IF bps = 0
  THEN Returns(<<IF maxGross < target THEN maxGross ELSE target>>)
  ELSE IF maxFee = NoMaxFee THEN Raises("TypeError")
  ELSE LET r == PlanLoop(maxGross, 0, <<>>, target, bps, maxFee) IN
       IF r.hop >= MAX_HOPS THEN Raises("RuntimeError")
       ELSE IF ~Continuous(r.gross, bps) THEN Raises("AssertionError")
       ELSE Returns(r.gross)

NoPlan == [target_net |-> -1, fee_bps |-> -1, max_gross |-> -1,
           max_fee |-> -1, result |-> Raises("none")]

InitPlan == plan = NoPlan

\* ---- WalletManager.hide_supply ----
PACKET_LIMIT == 1232
\* supply_machine, and the fee the mint's transferFeeConfig carries
HideSupply == 1000
HideFeeBps == 1000
HideFeeMax == 0
\* target_machine
HideTargets == {0, 500, 550, 600, 700, 750, 850, 950, 2000}
\* what get_account_info_json_parsed shows of the mint
MintStates == {"ok", "missing", "not_token2022", "no_fee", "rpc_error"}

\* serialized length of an instruction inside the message
IxBytes(kind) ==
  CASE kind = "create_ata" -> 250
    [] kind = "transfer"   -> 200
    [] kind = "burn"       -> 150

\* est_size: len(bytes(msg)) + 1 + 64 * max(1, signer_cnt)
RECURSIVE SumBytes(_)
SumBytes(ixs) ==
  IF ixs = <<>> THEN 0 ELSE IxBytes(Head(ixs).kind) + SumBytes(Tail(ixs))

EstSize(ixs, signerCnt) ==
  100 + SumBytes(ixs) + 1 + 64 * (IF signerCnt < 1 THEN 1 ELSE signerCnt)

\* an instruction: the holder that owns the source and signs, the holder of
\* the destination account, the amount
Ix(kind, signer, dest, amount) ==
  [kind |-> kind, signers |-> {signer}, src |-> signer, dest |-> dest,
   amount |-> amount]

\* the pushes of the for loop over hops, in order: hop i of a non-last hop
\* creates the ATA of temp wallet i and transfers from the previous holder;
\* the last hop transfers back to dev and burns what exceeds the target
RECURSIVE HopIxs(_, _, _)
HopIxs(i, hops, burnDelta) ==
  LET n == Len(hops) IN
  IF i > n THEN <<>>
  ELSE IF i < n
  THEN <<Ix("create_ata", 0, i, 0), Ix("transfer", i - 1, i, hops[i])>>
         \o HopIxs(i + 1, hops, burnDelta)
  ELSE <<Ix("transfer", i - 1, 0, hops[i])>>
         \o (IF burnDelta > 0 THEN <<Ix("burn", 0, 0, burnDelta)>> ELSE <<>>)

\* burn_delta = max(0, last_net - target_machine)
\* (variant: nothing is burnt)
BurnDeltaNone(lastNet, target) == 0
BurnDelta(lastNet, target) == IF lastNet - target > 0 THEN lastNet - target ELSE 0

\* the token accounts: dev's ATA and the ATAs of the temp wallets
Holders == 0..6
\* what the token program does with a transfer_checked whose source and
\* destination are one account: it validates and moves nothing, or it
\* withholds the fee like for any other transfer
SelfTransferEffects == {"nothing", "fee"}

\* the effect of one instruction on the balances, as the token program
\* with the mint's transferFeeConfig executes it; ok FALSE: it fails
ApplyIx(st, ix, selfEffect) ==
  IF ~st.ok \/ ix.kind = "create_ata" THEN st
  ELSE IF st.bal[ix.src] < ix.amount THEN [ok |-> FALSE, bal |-> st.bal]
  ELSE IF ix.kind = "burn"
  THEN [ok |-> TRUE, bal |-> [st.bal EXCEPT ![ix.src] = @ - ix.amount]]
  ELSE LET fee == FeeOf(ix.amount, HideFeeBps, HideFeeMax) IN
       IF ix.src = ix.dest
       THEN [ok |-> TRUE,
             bal |-> IF selfEffect = "nothing" THEN st.bal
                     ELSE [st.bal EXCEPT ![ix.src] = @ - fee]]
       ELSE [ok |-> TRUE,
             bal |-> [st.bal EXCEPT ![ix.src] = @ - ix.amount,
                                    ![ix.dest] = @ + ix.amount - fee]]

\* a transaction: its instructions in order, all or nothing
RECURSIVE ApplyIxs(_, _, _)
ApplyIxs(ixs, st, selfEffect) ==
  IF ixs = <<>> THEN st
  ELSE ApplyIxs(Tail(ixs), ApplyIx(st, Head(ixs), selfEffect), selfEffect)

NoResult == [success |-> FALSE, error |-> "none", tx_signatures |-> <<>>,
             last_net |-> 0, target |-> 0, burn_delta |-> 0]
Failure(e) == [success |-> FALSE, error |-> e, tx_signatures |-> <<>>,
               last_net |-> 0, target |-> 0, burn_delta |-> 0]
NoHidePlan == [hops |-> <<>>, target |-> 0, last_net |-> 0, burn_delta |-> 0]

InitHide ==
  /\ hsPc = "idle"
  /\ hsTodo = <<>>
  /\ batchIxs = <<>>
  /\ batchSigners = {}
  /\ hsSigs = <<>>
  /\ hsResult = NoResult
  /\ hsPlan = NoHidePlan
  /\ hsPushed = <<>>
  /\ held = [h \in Holders |-> IF h = 0 THEN HideSupply ELSE 0]


\* ---- Bablo._monitor_pnl_wrapper.on_value ----
\* profit_threshold_sol: 0 and 0.05 SOL
ProfitThresholds == {0, 50000000}
\* lamports of the SOL vault an update may carry
VaultValues == {0, LamportsAmount, LamportsAmount + 1,
                LamportsAmount + LAUNCH_COST_LAMPORTS - 1,
                LamportsAmount + LAUNCH_COST_LAMPORTS}

\* pnl = current_sol - init_sol - LAUNCH_COST_SOL, in lamports
Pnl(lamports, init) == lamports - init - LAUNCH_COST_LAMPORTS

InitPnl ==
  /\ ovInit = -1
  /\ ovThreshold = 0
  /\ ovUpdates = <<>>
  /\ ovEvent = FALSE


\* ---- operator boundaries: BabloController.set_param, the mode command ----
\* words an operator may type
ModeWords == {"manual", "auto", "xauto", "AUTO"}
ParamValues == ModeWords \cup {"0", "60", "abc"}
ParamKeys == {"mode", "timeout", "bogus"}

\* str.lower()
Lower(w) == IF w = "AUTO" THEN "auto" ELSE w

\* int(value): -1 stands for ValueError
IntOf(v) == CASE v = "0" -> 0 [] v = "60" -> 60 [] OTHER -> -1

\* BabloRuntimeConfig()
DefaultRuntimeConfig == [mode |-> "manual", cycle_timeout_sec |-> 120]
NoParamCall == [key |-> "", value |-> "", before |-> DefaultRuntimeConfig,
                error |-> ""]

InitBoundary ==
  /\ ctl = DefaultRuntimeConfig
  /\ ctlSaved = DefaultRuntimeConfig
  /\ ctlLast = NoParamCall


\* ---- Bablo.set_config ----
\* `self._worker_task and not self._worker_task.done()`
\* (variant: the test is missing)
WorkerBusyNever(w) == FALSE
WorkerBusy(w) == w = "running"

InitSetConfig ==
  /\ setConfigs = 0
  /\ setConfigRaised = FALSE


\* ---- Bablo._prepare_liquidity_pool ----
\* public keys as byte strings, two bytes long here
ByteValues == {0, 6, 155, 200, 255}
\* bytes(SOL_WRAPPED_MINT) begins 0x06 0x9b
SOL_WRAPPED_MINT == <<6, 155>>
\* a mint created by the bot is a new keypair
CreatedMints == [1..2 -> ByteValues] \ {SOL_WRAPPED_MINT}
TokenAmounts == {1, 2, 3}
PoolLamports == {LamportsAmount, LamportsAmount + 1}

\* bytes(a) < bytes(b) for byte strings of one length
BytesLess(a, b) ==
  \E i \in 1..Len(a) : a[i] < b[i] /\ \A j \in 1..(i - 1) : a[j] = b[j]

\* is_token_first
\* (variant: the created mint always goes first)
IsTokenFirstAlways(mint) == TRUE
IsTokenFirst(mint) == BytesLess(mint, SOL_WRAPPED_MINT)

\* get_pool_address and get_pool_vault_address: program derived addresses,
\* one for each combination of seeds
PoolAddress(mint0, mint1) == [mint0 |-> mint0, mint1 |-> mint1]
VaultAddress(poolState, mint) == [pool |-> poolState, mint |-> mint]

NoPool == [token_mint0 |-> <<>>]

InitPool == pool = NoPool


\* ---- WalletManager._gross_net_for_target_net, pass by pass ----
\* calls whose loop runs up to the hop guard: fee_bps = 1 and a gross between
\* 10000 and 19999 lose one unit per hop; a gross below 10000 loses nothing
LoopCalls ==
  {[target_net |-> t, fee_bps |-> 1, max_gross |-> 10150, max_fee |-> 0] :
     t \in {10049, 10050, 10051, 10148}}
  \cup {[target_net |-> 5, fee_bps |-> 1, max_gross |-> 10, max_fee |-> 0],
        [target_net |-> 10148, fee_bps |-> 10000, max_gross |-> 10150,
         max_fee |-> 1]}
NoLpArgs == [target_net |-> -1, fee_bps |-> -1, max_gross |-> -1,
             max_fee |-> -1]

InitLoop ==
  /\ lpArgs = NoLpArgs
  /\ lpPc = "idle"
  /\ lpG = 0
  /\ lpHop = 0
  /\ lpList = <<>>
  /\ lpBroke = FALSE
  /\ lpResult = Raises("none")


\* ---- WalletManager.distribute_via_chain ----
\* base_amount = int(amount_sol * LAMPORTS_PER_SOL) of one destination
ChainBaseAmounts == {1, 1000000, 2000000}
\* fee_lamports: the default and two others
ChainFeeLamports == {0, 5000, 7000}
\* what the chain charges the fee payer of a transfer with one signature
ChainTxFee == 5000
\* fund's balance before the call
FundLamports == 10000000
\* total_hops = len(hops)
TotalHops == 4
\* fund, tmp_wallets[0..2], dest_wallet
ChainWallets == 0..4

\* downstream = total_hops - i - 1
\* (variant: no hop carries lamports for the fees downstream)
DownstreamNone(total, i) == 0
Downstream(total, i) == total - i - 1

\* amounts[i] = base_amount + downstream * fee_lamports
HopAmount(base, fee, i) == base + Downstream(TotalHops, i) * fee

NoChainArgs == [base_amount |-> -1, fee_lamports |-> -1]

InitChain ==
  /\ dvcArgs = NoChainArgs
  /\ dvcPc = "idle"
  /\ dvcHop = 0
  /\ dvcSubmitted = <<>>
  /\ dvcLanded = {}
  /\ dvcBal = [w \in ChainWallets |-> IF w = 0 THEN FundLamports ELSE 0]
  /\ dvcOk = TRUE


\* ---- WalletManager: persisting keypairs ----
FundKey == 0

\* `with open(path, "w") as f: f.write(...)` raises when the file cannot be
\* written, and the exception leaves the creating method
\* (variant: the failure is swallowed and the keypair is used all the same)
CreationNeverFails(writeOk) == FALSE
CreationFails(writeOk) == ~writeOk

\* the files after _persist_wallet / json.dump for keypair k
Written(disk, k, writeOk) == IF writeOk THEN disk \cup {k} ELSE disk

InitWallets ==
  /\ wmPc = "none"
  /\ wmMade = 0
  /\ wmDisk = {}
  /\ wmDev = -1
  /\ wmTemps = {}
  /\ wmTargets = {}


\* ---- Bablo.start / Bablo.stop ----
TaskIds == 1..(MaxTasks + 1)
StopCallers == 1..2

\* a task that has been created and has not finished
AliveTasks(tasks) == {t \in DOMAIN tasks : tasks[t] \in {"running", "cancelling"}}

\* `self._worker_task and not self._worker_task.done()`
\* (variant: the test is left out)
HasLiveWorkerNever(w, tasks) == FALSE
HasLiveWorker(w, tasks) == w # 0 /\ tasks[w] # "done"

NoStart == [made |-> FALSE, alive |-> 0, created |-> FALSE, flag |-> FALSE,
            afterStop |-> FALSE]

InitLifecycle ==
  /\ lcTasks = [t \in TaskIds |-> "none"]
  /\ lcWorker = 0
  /\ lcStopEvent = FALSE
  /\ lcStopPc = [c \in StopCallers |-> "idle"]
  /\ lcAwaited = [c \in StopCallers |-> 0]
  /\ lcStopped = FALSE
  /\ lcLast = NoStart


\* ---- BabloController ----
BcUsers == {"u1", "u2"}
BcTasks == BcUsers \cup {"auto"}
BabloIds == 1..(MaxBablos + 3)

\* the working-loop tasks that have been created and are not done
LiveWorkers(w) == {k \in DOMAIN w : w[k] \in {"running", "cancelling"}}

\* `self.bablo is not None and self.bablo._worker_task and not
\* self.bablo._worker_task.done()`
CycleRunning(b, w) == b # 0 /\ w[b] \in {"running", "cancelling"}

\* Lock.release(): the first waiter is woken and put on the ready queue
ReleasedReady(ready, queue) ==
  IF queue # <<>> THEN Append(ready, Head(queue)) ELSE ready
ReleasedSt(st, queue) ==
  IF queue # <<>> THEN [st EXCEPT ![Head(queue)] = "ready"] ELSE st

\* `await self._send(...)`: the task is suspended on the network, or goes on
AfterSend(st, t, suspends) == IF suspends THEN [st EXCEPT ![t] = "io"] ELSE st

InitController ==
  /\ bcCtl = "none"
  /\ bcSendSuspends = TRUE
  /\ bcBablo = 0
  /\ bcBuilt = 0
  /\ bcWorker = [k \in BabloIds |-> "none"]
  /\ bcWaiters = [k \in BabloIds |-> <<>>]
  /\ bcLocked = FALSE
  /\ bcLockWaiters = <<>>
  /\ bcReady = <<>>
  /\ bcSt = [t \in BcTasks |-> "idle"]
  /\ bcPc = [t \in BcTasks |-> IF t = "auto" THEN "off" ELSE "idle"]
  /\ bcRaised = {}

\* ---- state after construction (Bablo.__init__, WalletManager.__init__) ----
NoSent == [s \in TxSteps |-> 0]

Init ==
  /\ cfg \in [mode : Modes, cycle_timeout_sec : TimeoutChoices]
  /\ stopEvent = FALSE
  /\ worker = "none"
  /\ pc = "end"
  /\ cancelReq = FALSE
  /\ attempt = 0
  /\ sent = NoSent
  /\ returned = {}
  /\ failedAt = "none"
  /\ pnlTask = "none"
  /\ timerTask = "none"
  /\ pnlWaitTask = "none"
  /\ pnlEvent = FALSE
  /\ wsStop = FALSE
  /\ profitSeen = FALSE
  /\ expired = FALSE
  /\ leaked = 0
  /\ excAlerts = 0
  /\ stopPc = "idle"
  /\ stopHit = "none"
  /\ starts = 0
  /\ iters = 0
  /\ locked = FALSE
  /\ waiters = <<>>
  /\ woken = FALSE
  /\ upc = [u \in Users |-> "idle"]
  /\ ucalls = 0
  /\ dev = 0
  /\ devSnapshot = -1
  /\ bal = -1
  /\ fundIx = NoIx
  /\ InitHub
  /\ InitLimiter
  /\ InitRetry
  /\ InitBlockhash
  /\ InitSend
  /\ InitPlan
  /\ InitHide
  /\ InitPnl
  /\ InitBoundary
  /\ InitSetConfig
  /\ InitPool
  /\ InitLoop
  /\ InitChain
  /\ InitWallets
  /\ InitLifecycle
  /\ InitController

\* ---- fragments shared by the worker's actions ----
\* (variant of Unwind whose cleanup re-enters the withdraw of an initialised
\* pool without a run-once guard)
UnwindRetriesWithdraw(kind) ==
  IF pc \in InCycle /\ kind = "error" /\ "init_pool" \in returned
  THEN /\ wsStop' = TRUE
       /\ pc' = "withdraw"
       /\ UNCHANGED <<pnlTask, worker, excAlerts, lockVars>>
  ELSE IF pc \in InCycle /\ Alive(pnlTask)
  THEN /\ wsStop' = TRUE
       /\ pnlTask' = "cancelling"
       /\ pc' = IF kind = "cancel" THEN "finally_await_pnl_cancel"
                                   ELSE "finally_await_pnl_error"
       /\ UNCHANGED <<worker, excAlerts, lockVars>>
  ELSE /\ wsStop' = (wsStop \/ pc \in InCycle)
       /\ pnlTask' = pnlTask
       /\ IF pc \in LockHeldPcs THEN Release ELSE UNCHANGED lockVars
       /\ IF kind = "cancel"
          THEN /\ worker' = "done"
               /\ pc' = "end"
               /\ excAlerts' = excAlerts
          ELSE /\ worker' = "running"
               /\ pc' = "alert"
               /\ excAlerts' = excAlerts + 1

\* (variant of Unwind in which a cancellation leaves the dev lock held)
UnwindKeepsLock(kind) ==
  IF pc \in InCycle /\ Alive(pnlTask)
  THEN /\ wsStop' = TRUE
       /\ pnlTask' = "cancelling"
       /\ pc' = IF kind = "cancel" THEN "finally_await_pnl_cancel"
                                   ELSE "finally_await_pnl_error"
       /\ UNCHANGED <<worker, excAlerts, lockVars>>
  ELSE /\ wsStop' = (wsStop \/ pc \in InCycle)
       /\ pnlTask' = pnlTask
       /\ IF pc \in LockHeldPcs /\ kind = "error"
          THEN Release ELSE UNCHANGED lockVars
       /\ IF kind = "cancel"
          THEN /\ worker' = "done"
               /\ pc' = "end"
               /\ excAlerts' = excAlerts
          ELSE /\ worker' = "running"
               /\ pc' = "alert"
               /\ excAlerts' = excAlerts + 1

\* An exception leaves the current await: the finally block of
\* _cycle_with_dev, then dev_cycle().__aexit__, then the except clauses of
\* working_loop.  kind is "cancel" (CancelledError) or "error".
Unwind(kind) ==
  IF pc \in InCycle /\ Alive(pnlTask)
  THEN /\ wsStop' = TRUE
       /\ pnlTask' = "cancelling"
       /\ pc' = IF kind = "cancel" THEN "finally_await_pnl_cancel"
                                   ELSE "finally_await_pnl_error"
       /\ UNCHANGED <<worker, excAlerts, lockVars>>
  ELSE /\ wsStop' = (wsStop \/ pc \in InCycle)
       /\ pnlTask' = pnlTask
       /\ IF pc \in LockHeldPcs THEN Release ELSE UNCHANGED lockVars
       /\ IF kind = "cancel"
          THEN /\ worker' = "done"
               /\ pc' = "end"
               /\ excAlerts' = excAlerts
          ELSE /\ worker' = "running"
               /\ pc' = "alert"
               /\ excAlerts' = excAlerts + 1

\* lines 235-243 of _cycle_with_dev, run once the pending tasks are awaited
Teardown ==
  IF Alive(pnlTask)
  THEN /\ wsStop' = TRUE
       /\ pnlTask' = "cancelling"
       /\ pc' = "await_pnl"
       /\ UNCHANGED <<worker, excAlerts, lockVars>>
  ELSE IF AwaitOutcome(pnlTask) = "raise"
  THEN Unwind("error")
  ELSE /\ wsStop' = TRUE
       /\ pc' = "withdraw"
       /\ UNCHANGED <<pnlTask, worker, excAlerts, lockVars>>

\* `while not self._stopped()` and the reset of what one iteration owns
NumAlive(t) == IF Alive(t) THEN 1 ELSE 0

EnterLoop ==
  IF stopEvent
  THEN /\ worker' = "done"
       /\ pc' = "end"
       /\ UNCHANGED <<cycleVars, iters, fundVars>>
  ELSE /\ iters < MaxIterations
       /\ iters' = iters + 1
       /\ worker' = "running"
       /\ pc' = "next_ca"
       /\ attempt' = 0
       /\ sent' = NoSent
       /\ returned' = {}
       /\ failedAt' = "none"
       /\ pnlTask' = "none"
       /\ timerTask' = "none"
       /\ pnlWaitTask' = "none"
       /\ pnlEvent' = FALSE
       /\ wsStop' = FALSE
       /\ profitSeen' = FALSE
       /\ expired' = FALSE
       /\ leaked' = leaked + NumAlive(pnlWaitTask)
       /\ devSnapshot' = -1
       /\ bal' = -1
       /\ fundIx' = NoIx

\* ---- operator calls ----
\* Bablo.start(): no effect while a worker is running
Start ==
  /\ worker # "running"
  /\ starts < MaxStarts
  /\ starts' = starts + 1
  /\ stopEvent' = FALSE
  /\ worker' = "running"
  /\ pc' = "created"
  /\ iters' = 0
  /\ excAlerts' = 0
  /\ failedAt' = "none"
  /\ UNCHANGED <<cfg, cancelReq, attempt, sent, returned, pnlTask, timerTask,
                 pnlWaitTask, pnlEvent, wsStop, profitSeen, expired, leaked,
                 stopVars, lockVars, userVars, dev, fundVars, extVars>>

\* Bablo.stop() up to its `await self._worker_task`; self._pnl_task is never
\* assigned after __init__, so the first branch of stop() is never taken
StopCall ==
  /\ stopPc = "idle"
  /\ stopEvent' = TRUE
  /\ IF worker = "running"
     THEN /\ cancelReq' = TRUE
          /\ stopPc' = "await_worker"
          /\ stopHit' = pc
     ELSE /\ cancelReq' = cancelReq
          /\ stopPc' = "returned"
          /\ stopHit' = "none"
  /\ UNCHANGED <<cfg, worker, pc, excAlerts, iters, starts, cycleVars, lockVars, userVars, dev, fundVars, extVars>>

\* `await self._worker_task` in stop() completes when the worker is done
StopReturns ==
  /\ stopPc = "await_worker"
  /\ worker = "done"
  /\ stopPc' = "returned"
  /\ UNCHANGED <<stopHit, workVars, cycleVars, lockVars, userVars, dev, fundVars, extVars>>

\* the caller of stop() goes on
StopDone ==
  /\ stopPc = "returned"
  /\ stopPc' = "idle"
  /\ stopHit' = "none"
  /\ UNCHANGED <<workVars, cycleVars, lockVars, userVars, dev, fundVars, extVars>>

\* ---- working_loop ----
\* first step of the worker task, and wake-up from a between-iteration sleep
LoopTop ==
  /\ worker = "running"
  /\ ~cancelReq
  /\ pc \in {"created", "sleep_noca", "auto_sleep"}
  /\ EnterLoop
  /\ UNCHANGED <<cfg, stopEvent, cancelReq, excAlerts, starts, stopVars,
                 lockVars, userVars, dev, extVars>>

\* _next_contract_address: get_ca (manual) or get_ca_auto (auto) returns
NextCA(outcome) ==
  /\ worker = "running"
  /\ ~cancelReq
  /\ pc = "next_ca"
  /\ outcome \in (IF cfg.mode = "manual" THEN {"ca", "raise"} ELSE {"ca", "none"})
  /\ CASE outcome = "ca" ->
            /\ pc' = "copy_meta"
            /\ UNCHANGED <<worker, excAlerts, wsStop, pnlTask, lockVars>>
       [] outcome = "none" ->
            /\ pc' = "sleep_noca"
            /\ UNCHANGED <<worker, excAlerts, wsStop, pnlTask, lockVars>>
       [] outcome = "raise" -> Unwind("error")
  /\ UNCHANGED <<cfg, stopEvent, cancelReq, iters, starts, stopVars, userVars, dev, fundVars, extVars,
                 attempt, sent, returned, failedAt, timerTask, pnlWaitTask,
                 pnlEvent, profitSeen, expired, leaked>>

\* _copy_token_metadata returns or raises
CopyMeta(ok) ==
  /\ worker = "running"
  /\ ~cancelReq
  /\ pc = "copy_meta"
  /\ IF ok
     THEN /\ pc' = "say_meta"
          /\ UNCHANGED <<worker, excAlerts, wsStop, pnlTask, lockVars>>
     ELSE Unwind("error")
  /\ UNCHANGED <<cfg, stopEvent, cancelReq, iters, starts, stopVars, userVars, dev, fundVars, extVars,
                 attempt, sent, returned, failedAt, timerTask, pnlWaitTask,
                 pnlEvent, profitSeen, expired, leaked>>

\* a _say(...) returns; the code up to the next await runs
SayReturns ==
  /\ worker = "running"
  /\ ~cancelReq
  /\ pc \in SaySteps
  /\ LET next == StepAfter(pc) IN
     CASE next = "lock_acquire" ->
            \* dev_cycle().__aenter__: acquire the dev lock
            /\ IF LockFree
               THEN /\ locked' = TRUE
                    /\ devSnapshot' = dev
                    /\ pc' = "fund_balance"
                    /\ UNCHANGED <<waiters, woken>>
               ELSE /\ waiters' = Append(waiters, "cycle")
                    /\ pc' = "lock_wait"
                    /\ UNCHANGED <<locked, woken, devSnapshot>>
            /\ UNCHANGED <<cycleVars, worker, iters, bal, fundIx>>
       [] next = "wait" ->
            \* create_task x3, then asyncio.wait(FIRST_COMPLETED)
            /\ pnlTask' = "pending"
            /\ timerTask' = "pending"
            /\ pnlWaitTask' = "pending"
            /\ pc' = "wait"
            /\ UNCHANGED <<attempt, sent, returned, failedAt, pnlEvent, wsStop,
                           profitSeen, expired, leaked, worker, iters, lockVars,
                           fundVars>>
       [] next = "cycle_exit" ->
            \* finally of _cycle_with_dev, __aexit__, end of the loop body
            /\ Release
            /\ IF cfg.mode = "auto"
               THEN /\ pc' = "auto_sleep"
                    /\ wsStop' = TRUE
                    /\ UNCHANGED <<attempt, sent, returned, failedAt, pnlTask,
                                   timerTask, pnlWaitTask, pnlEvent, profitSeen,
                                   expired, leaked, worker, iters, fundVars>>
               ELSE EnterLoop
       [] OTHER ->
            /\ pc' = next
            /\ attempt' = 0
            /\ UNCHANGED <<sent, returned, failedAt, pnlTask, timerTask,
                           pnlWaitTask, pnlEvent, wsStop, profitSeen, expired,
                           leaked, worker, iters, lockVars, fundVars>>
  /\ UNCHANGED <<cfg, stopEvent, cancelReq, excAlerts, starts, stopVars,
                 userVars, dev, extVars>>

\* the queued acquire of the dev lock is granted
LockGranted ==
  /\ worker = "running"
  /\ ~cancelReq
  /\ pc = "lock_wait"
  /\ woken
  /\ Head(waiters) = "cycle"
  /\ waiters' = Tail(waiters)
  /\ woken' = FALSE
  /\ locked' = TRUE
  /\ devSnapshot' = dev
  /\ pc' = "fund_balance"
  /\ UNCHANGED <<cfg, stopEvent, worker, cancelReq, excAlerts, iters, starts,
                 cycleVars, stopVars, userVars, dev, bal, fundIx, extVars>>

\* get_multiple_accounts_lamports_balances returns (or raises) in
\* _ensure_dev_funded_for and at the start of _cycle_with_dev
RpcReturns(ok, b) ==
  /\ worker = "running"
  /\ ~cancelReq
  /\ pc \in {"fund_balance", "cycle_balance"}
  /\ IF ~ok
     THEN Unwind("error") /\ UNCHANGED <<attempt, bal, fundIx>>
     ELSE /\ IF pc = "fund_balance"
             THEN LET shortfall == Shortfall(SeedTarget, b) IN
                  /\ bal' = b
                  /\ fundIx' = IF shortfall > 0 THEN TransferIx(shortfall)
                                                ELSE NoIx
                  /\ pc' = IF shortfall > 0 THEN "fund_transfer"
                                            ELSE "cycle_balance"
             ELSE /\ pc' = StepAfter(pc)
                  /\ UNCHANGED <<bal, fundIx>>
          /\ attempt' = 0
          /\ UNCHANGED <<worker, excAlerts, wsStop, pnlTask, lockVars>>
  /\ UNCHANGED <<cfg, stopEvent, cancelReq, iters, starts, stopVars, userVars,
                 dev, devSnapshot, extVars,
                 sent, returned, failedAt, timerTask, pnlWaitTask,
                 pnlEvent, profitSeen, expired, leaked>>

\* one pass of `for attempt in range(max_retries)` in build_and_send_transaction:
\* the transaction is submitted and confirmed ("ok"), the attempt raises before
\* ("fail_unsent") or after ("fail_sent") the submission, or the code before
\* the loop (get_client, get_latest_blockhash) raises ("raise_before").  The
\* loop has no break: a successful attempt that is not the last is followed by
\* the next attempt.
TxOutcomes == {"ok", "fail_unsent", "fail_sent", "raise_before"}

TxAttempt(outcome) ==
  /\ worker = "running"
  /\ ~cancelReq
  /\ pc \in TxSteps
  /\ outcome = "raise_before" => attempt = 0
  /\ sent' = [sent EXCEPT ![pc] = @ + (IF outcome \in {"ok", "fail_sent"} THEN 1 ELSE 0)]
  /\ LET ok == outcome = "ok"
         last == attempt >= MaxRetries(pc) - 1 IN
     IF outcome = "raise_before" \/ (~ok /\ LastAttempt(attempt, pc))
     THEN /\ failedAt' = pc
          /\ Unwind("error")
          /\ UNCHANGED <<attempt, returned>>
     ELSE IF last
     THEN \* `return sig, success`
          /\ failedAt' = IF ok THEN failedAt ELSE pc
          /\ returned' = returned \cup {pc}
          /\ pc' = StepAfter(pc)
          /\ attempt' = 0
          /\ UNCHANGED <<worker, excAlerts, wsStop, pnlTask, lockVars>>
     ELSE /\ attempt' = attempt + 1
          /\ UNCHANGED <<failedAt, returned, pc, worker, excAlerts, wsStop,
                         pnlTask, lockVars>>
  /\ UNCHANGED <<cfg, stopEvent, cancelReq, iters, starts, stopVars, userVars, dev, fundVars, extVars,
                 timerTask, pnlWaitTask, pnlEvent, profitSeen, expired, leaked>>

\* ---- tasks spawned by _cycle_with_dev ----
\* first steps of pnl_task, timer_task and pnl_wait_task, which the event loop
\* runs in creation order before the worker can resume
ChildTasksStart ==
  /\ pnlTask = "pending"
  /\ pnlTask' = PnlFirstStep
  /\ timerTask' = "sleeping"
  /\ pnlWaitTask' = IF pnlEvent THEN "done" ELSE "waiting"
  /\ UNCHANGED <<attempt, sent, returned, failedAt, pnlEvent, wsStop, profitSeen,
                 expired, leaked, workVars, stopVars, lockVars, userVars, dev, fundVars, extVars>>

\* asyncio.sleep(cycle_timeout_sec) completes; sleep(0) completes as well
TimerFires ==
  /\ timerTask = "sleeping"
  /\ timerTask' = "done"
  /\ UNCHANGED <<attempt, sent, returned, failedAt, pnlTask, pnlWaitTask, pnlEvent,
                 wsStop, profitSeen, expired, leaked, workVars, stopVars,
                 lockVars, userVars, dev, fundVars, extVars>>

\* the SOL vault reaches the profit threshold while the cycle waits; on_value
\* runs only if the monitor is subscribed
ProfitUpdate ==
  /\ worker = "running"
  /\ pc = "wait"
  /\ timerTask = "sleeping"
  /\ ~profitSeen
  /\ profitSeen' = TRUE
  /\ IF pnlTask = "subscribed"
     THEN /\ pnlEvent' = TRUE
          /\ wsStop' = TRUE
          /\ pnlWaitTask' = IF pnlWaitTask = "waiting" THEN "done" ELSE pnlWaitTask
     ELSE UNCHANGED <<pnlEvent, wsStop, pnlWaitTask>>
  /\ UNCHANGED <<attempt, sent, returned, failedAt, pnlTask, timerTask, expired,
                 leaked, workVars, stopVars, lockVars, userVars, dev, fundVars, extVars>>

\* asyncio.wait returns; the pending tasks are cancelled and awaited
WaitReturns ==
  /\ worker = "running"
  /\ ~cancelReq
  /\ pc = "wait"
  /\ timerTask = "done" \/ pnlWaitTask = "done"
  /\ expired' = (timerTask = "done")
  /\ timerTask' = IF timerTask = "done" THEN "done" ELSE "cancelling"
  /\ pnlWaitTask' = IF pnlWaitTask = "done" THEN "done" ELSE "cancelling"
  /\ IF timerTask = "done" /\ pnlWaitTask = "done"
     THEN Teardown
     ELSE /\ pc' = "cancel_pending"
          /\ UNCHANGED <<wsStop, pnlTask, worker, excAlerts, lockVars>>
  /\ UNCHANGED <<cfg, stopEvent, cancelReq, iters, starts, stopVars, userVars, dev, fundVars, extVars,
                 attempt, sent, returned, failedAt, pnlEvent, profitSeen, leaked>>

\* a cancelled child task takes its CancelledError; _monitor_pnl_wrapper
\* catches it and returns
ChildCancelled(which) ==
  /\ CASE which = "timer" -> /\ timerTask = "cancelling"
                             /\ timerTask' = "cancelled"
                             /\ UNCHANGED <<pnlWaitTask, pnlTask>>
       [] which = "wait"  -> /\ pnlWaitTask = "cancelling"
                             /\ pnlWaitTask' = "cancelled"
                             /\ UNCHANGED <<timerTask, pnlTask>>
       [] which = "pnl"   -> /\ pnlTask = "cancelling"
                             /\ pnlTask' = "returned"
                             /\ UNCHANGED <<timerTask, pnlWaitTask>>
  /\ UNCHANGED <<attempt, sent, returned, failedAt, pnlEvent, wsStop, profitSeen,
                 expired, leaked, workVars, stopVars, lockVars, userVars, dev, fundVars, extVars>>

\* `try: await t / except asyncio.CancelledError: pass` resumes; a
\* CancelledError delivered to the worker here is caught by the same clause
AwaitChildReturns ==
  /\ worker = "running"
  /\ pc \in AwaitChildPcs
  /\ timerTask # "cancelling" /\ pnlWaitTask # "cancelling" /\ pnlTask # "cancelling"
  /\ cancelReq' = FALSE
  /\ CASE pc = "cancel_pending" -> Teardown
       [] pc = "await_pnl" ->
            /\ pc' = "withdraw"
            /\ UNCHANGED <<wsStop, pnlTask, worker, excAlerts, lockVars>>
       [] pc = "finally_await_pnl_cancel" -> Unwind("cancel")
       [] pc = "finally_await_pnl_error" -> Unwind("error")
  /\ UNCHANGED <<cfg, stopEvent, iters, starts, stopVars, userVars, dev, fundVars, extVars,
                 attempt, sent, returned, failedAt, timerTask, pnlWaitTask,
                 pnlEvent, profitSeen, expired, leaked>>

\* `await self._yel(...)` in `except Exception` returns; working_loop ends
AlertReturns ==
  /\ worker = "running"
  /\ ~cancelReq
  /\ pc = "alert"
  /\ worker' = "done"
  /\ pc' = "end"
  /\ UNCHANGED <<cfg, stopEvent, cancelReq, excAlerts, iters, starts, cycleVars,
                 stopVars, lockVars, userVars, dev, fundVars, extVars>>

\* the CancelledError of stop() is thrown into the worker at its await
WorkerCancelled ==
  /\ worker = "running"
  /\ cancelReq
  /\ pc \notin AwaitChildPcs
  /\ ~(pc = "wait" /\ pnlTask = "pending")
  /\ cancelReq' = FALSE
  /\ IF pc = "lock_wait"
     THEN /\ waiters' = RemoveWaiter(waiters, "cycle")
          /\ locked' = locked
          /\ woken' = IF locked THEN woken ELSE waiters' # <<>>
          /\ worker' = "done"
          /\ pc' = "end"
          /\ UNCHANGED <<wsStop, pnlTask, excAlerts>>
     ELSE Unwind("cancel")
  /\ UNCHANGED <<cfg, stopEvent, iters, starts, stopVars, userVars, dev, fundVars, extVars,
                 attempt, sent, returned, failedAt, timerTask, pnlWaitTask,
                 pnlEvent, profitSeen, expired, leaked>>

\* ---- locked WalletManager methods called by other tasks ----
\* distribute_lamports / withdraw_to_fund / rollover_dev: `async with _dev_lock`
UserCall(u) ==
  /\ upc[u] = "idle"
  /\ ucalls < MaxUserCalls
  /\ ucalls' = ucalls + 1
  /\ IF LockFree
     THEN /\ locked' = TRUE
          /\ upc' = [upc EXCEPT ![u] = "inside"]
          /\ dev' = DevOnEntry(u)
          /\ UNCHANGED <<waiters, woken>>
     ELSE /\ waiters' = Append(waiters, u)
          /\ upc' = [upc EXCEPT ![u] = "lock_wait"]
          /\ UNCHANGED <<locked, woken, dev>>
  /\ UNCHANGED <<workVars, cycleVars, stopVars, fundVars, extVars>>

UserGranted(u) ==
  /\ upc[u] = "lock_wait"
  /\ woken
  /\ Head(waiters) = u
  /\ waiters' = Tail(waiters)
  /\ woken' = FALSE
  /\ locked' = TRUE
  /\ upc' = [upc EXCEPT ![u] = "inside"]
  /\ dev' = DevOnEntry(u)
  /\ UNCHANGED <<ucalls, workVars, cycleVars, stopVars, fundVars, extVars>>

\* the unlocked body returned or raised; `async with` releases the lock
UserExit(u) ==
  /\ upc[u] = "inside"
  /\ Release
  /\ upc' = [upc EXCEPT ![u] = "idle"]
  /\ UNCHANGED <<ucalls, dev, workVars, cycleVars, stopVars, fundVars, extVars>>

\* WalletManager.update_dev(): a plain method that takes no lock
UpdateDev ==
  /\ ucalls < MaxUserCalls
  /\ ucalls' = ucalls + 1
  /\ dev' = dev + 1
  /\ UNCHANGED <<upc, workVars, cycleVars, stopVars, lockVars, fundVars, extVars>>

\* ---- WsHub._runner, _read_loop, _ping_loop ----
HubTaskDone(t) == t \in {"closed", "raised", "stopped", "failed", "returned",
                         "cancelled"}

\* `while not self._stop.is_set()` after an iteration that slept d (0: none)
HubLoopBack(d) ==
  /\ hubPc' = IF hubStop THEN "done" ELSE "connect"
  /\ delay' = d

\* `except Exception` of _runner: break if stopped, else sleep a random delay
HubRunnerRaises(k) ==
  IF hubStop
  THEN hubPc' = "done" /\ delay' = delay
  ELSE hubPc' = "backoff" /\ delay' = BackoffDelay(k)

\* lines 83-86 of _runner, the exit of `async with`, and what follows
HubAfterWait(k) ==
  /\ connOpen' = FALSE
  /\ IF reader = "raised" THEN HubRunnerRaises(k) ELSE HubLoopBack(0)

\* start(pubkey, on_change) or `await monitor_account_lamports(pubkey, ...)`
HubStart(viaStart, pubkey, commitment) ==
  /\ hubPc = "idle"
  /\ hubArgs' = [pubkey |-> pubkey, commitment |-> commitment]
  /\ hubTask' = viaStart
  /\ hubStop' = IF viaStart THEN FALSE ELSE hubStop
  /\ hubPc' = IF hubStop' THEN "done" ELSE "connect"
  /\ UNCHANGED <<hubCancelReq, connOpen, conns, subs, reader, pinger,
                 prevLamports, prev, notifs, calls, handlerErrs, delay>>
  /\ UNCHANGED hubOthers

\* WsHub.stop(): set the event, cancel the task that start() created
HubStopCall ==
  /\ ~hubStop
  /\ hubStop' = TRUE
  /\ hubCancelReq' = (hubTask /\ hubPc \notin {"idle", "done"})
  /\ UNCHANGED <<hubArgs, hubPc, hubTask, connOpen, conns, subs, reader, pinger,
                 prevLamports, prev, notifs, calls, handlerErrs, delay>>
  /\ UNCHANGED hubOthers

\* the CancelledError reaches _runner at an await: `except CancelledError: break`
HubCancelled ==
  /\ hubCancelReq
  /\ hubPc \in {"connect", "subscribe", "wait", "backoff"}
  /\ hubCancelReq' = FALSE
  /\ hubPc' = "done"
  /\ connOpen' = FALSE
  /\ UNCHANGED <<hubArgs, hubTask, hubStop, conns, subs, reader, pinger,
                 prevLamports, prev, notifs, calls, handlerErrs, delay>>
  /\ UNCHANGED hubOthers

\* websockets.connect(...) returns a connection or raises
HubConnect(ok, k) ==
  /\ hubPc = "connect"
  /\ ~hubCancelReq
  /\ conns < MaxConnects
  /\ IF ok
     THEN /\ connOpen' = TRUE
          /\ conns' = conns + 1
          /\ hubPc' = "subscribe"
          /\ delay' = delay
     ELSE /\ HubRunnerRaises(k)
          /\ UNCHANGED <<connOpen, conns>>
  /\ UNCHANGED <<hubArgs, hubTask, hubStop, hubCancelReq, subs, reader, pinger,
                 prevLamports, prev, notifs, calls, handlerErrs>>
  /\ UNCHANGED hubOthers

\* _subscribe_account: ws.send returns or raises; reader and pinger are created
HubSubscribe(ok, k) ==
  /\ hubPc = "subscribe"
  /\ ~hubCancelReq
  /\ IF ok
     THEN /\ subs' = Append(subs, SubscribePayload(hubArgs.pubkey, hubArgs.commitment))
          /\ reader' = "running"
          /\ pinger' = "running"
          /\ prev' = -1
          /\ hubPc' = "wait"
          /\ UNCHANGED <<connOpen, delay>>
     ELSE /\ connOpen' = FALSE
          /\ HubRunnerRaises(k)
          /\ UNCHANGED <<subs, reader, pinger, prev>>
  /\ UNCHANGED <<hubArgs, hubTask, hubStop, hubCancelReq, conns, prevLamports,
                 notifs, calls, handlerErrs>>
  /\ UNCHANGED hubOthers

\* one pass of `async for raw in ws` in _read_loop
ReaderRecv(v) ==
  /\ reader = "running"
  /\ connOpen
  /\ Len(notifs) < MaxNotifs
  /\ IF hubStop
     THEN /\ reader' = "stopped"
          /\ UNCHANGED <<prev, notifs, calls>>
     ELSE IF v = NotANotification
     THEN UNCHANGED <<reader, prev, notifs, calls>>
     ELSE /\ notifs' = Append(notifs, v)
          /\ IF ShouldEmit(v, prevLamports)
             THEN /\ prev' = v
                  /\ calls' = Append(calls, v)
                  /\ reader' = "handler"
             ELSE UNCHANGED <<reader, prev, calls>>
  /\ UNCHANGED <<hubArgs, hubPc, hubTask, hubStop, hubCancelReq, connOpen, conns,
                 subs, pinger, prevLamports, handlerErrs, delay>>
  /\ UNCHANGED hubOthers

\* `await on_change(lamports)` returns or raises
HandlerReturns(ok) ==
  /\ reader = "handler"
  /\ reader' = HandlerOutcome(ok)
  /\ handlerErrs' = handlerErrs + (IF ok THEN 0 ELSE 1)
  /\ UNCHANGED <<hubArgs, hubPc, hubTask, hubStop, hubCancelReq, connOpen, conns,
                 subs, pinger, prevLamports, prev, notifs, calls, delay>>
  /\ UNCHANGED hubOthers

\* the iteration over ws ends: a clean close ends the loop, a broken
\* connection raises ConnectionClosedError out of _read_loop
ReaderEnds(clean) ==
  /\ reader = "running"
  /\ reader' = IF clean THEN "closed" ELSE "raised"
  /\ UNCHANGED <<hubArgs, hubPc, hubTask, hubStop, hubCancelReq, connOpen, conns,
                 subs, pinger, prevLamports, prev, notifs, calls, handlerErrs,
                 delay>>
  /\ UNCHANGED hubOthers

\* _ping_loop: ws.ping() raises (break), or the loop condition sees the stop
PingerEnds(failed) ==
  /\ pinger = "running"
  /\ failed \/ hubStop
  /\ pinger' = IF failed THEN "failed" ELSE "returned"
  /\ UNCHANGED <<hubArgs, hubPc, hubTask, hubStop, hubCancelReq, connOpen, conns,
                 subs, reader, prevLamports, prev, notifs, calls, handlerErrs,
                 delay>>
  /\ UNCHANGED hubOthers

\* asyncio.wait({reader, pinger}, FIRST_COMPLETED) returns; pending tasks are
\* cancelled and awaited
HubWaitReturns(k) ==
  /\ hubPc = "wait"
  /\ ~hubCancelReq
  /\ HubTaskDone(reader) \/ HubTaskDone(pinger)
  /\ IF HubTaskDone(reader) /\ HubTaskDone(pinger)
     THEN /\ HubAfterWait(k)
          /\ UNCHANGED <<reader, pinger>>
     ELSE /\ reader' = IF HubTaskDone(reader) THEN reader ELSE "cancelling"
          /\ pinger' = IF HubTaskDone(pinger) THEN pinger ELSE "cancelling"
          /\ hubPc' = "cancel_pending"
          /\ UNCHANGED <<connOpen, delay>>
  /\ UNCHANGED <<hubArgs, hubTask, hubStop, hubCancelReq, conns, subs,
                 prevLamports, prev, notifs, calls, handlerErrs>>
  /\ UNCHANGED hubOthers

\* a cancelled reader or pinger takes its CancelledError
HubChildCancelled(which) ==
  /\ IF which = "reader"
     THEN reader = "cancelling" /\ reader' = "cancelled" /\ pinger' = pinger
     ELSE pinger = "cancelling" /\ pinger' = "cancelled" /\ reader' = reader
  /\ UNCHANGED <<hubArgs, hubPc, hubTask, hubStop, hubCancelReq, connOpen, conns,
                 subs, prevLamports, prev, notifs, calls, handlerErrs, delay>>
  /\ UNCHANGED hubOthers

\* `try: await t / except CancelledError: pass` of _runner resumes; a
\* cancellation of the runner delivered here is caught by the same clause
HubAwaitPendingReturns(k) ==
  /\ hubPc = "cancel_pending"
  /\ reader # "cancelling" /\ pinger # "cancelling"
  /\ hubCancelReq' = FALSE
  /\ HubAfterWait(k)
  /\ UNCHANGED <<hubArgs, hubTask, hubStop, conns, subs, reader, pinger,
                 prevLamports, prev, notifs, calls, handlerErrs>>
  /\ UNCHANGED hubOthers

\* asyncio.sleep(delay) of the except clause returns
BackoffDone ==
  /\ hubPc = "backoff"
  /\ ~hubCancelReq
  /\ HubLoopBack(delay)
  /\ UNCHANGED <<hubArgs, hubTask, hubStop, hubCancelReq, connOpen, conns, subs,
                 reader, pinger, prevLamports, prev, notifs, calls, handlerErrs>>
  /\ UNCHANGED hubOthers

NextHub ==
  \/ \E v \in BOOLEAN, p \in Pubkeys, c \in Commitments : HubStart(v, p, c)
  \/ HubStopCall
  \/ HubCancelled
  \/ \E ok \in BOOLEAN, k \in BackoffExponents : HubConnect(ok, k)
  \/ \E ok \in BOOLEAN, k \in BackoffExponents : HubSubscribe(ok, k)
  \/ \E v \in LamportValues \cup {NotANotification} : ReaderRecv(v)
  \/ \E ok \in BOOLEAN : HandlerReturns(ok)
  \/ \E clean \in BOOLEAN : ReaderEnds(clean)
  \/ \E failed \in BOOLEAN : PingerEnds(failed)
  \/ \E k \in BackoffExponents : HubWaitReturns(k)
  \/ \E w \in {"reader", "pinger"} : HubChildCancelled(w)
  \/ \E k \in BackoffExponents : HubAwaitPendingReturns(k)
  \/ BackoffDone

\* the orchestrator stays as constructed, with one configuration
InitQuiet == Init /\ cfg = [mode |-> "manual", cycle_timeout_sec |-> 0]

SpecHub == InitQuiet /\ [][NextHub]_vars

\* ---- AsyncRateLimiter.wait ----
\* the code of wait() from a reading of time.monotonic() to its next
\* suspension: pop what has expired, then sleep (deque still full) or append
LimRun(c) ==
  LET q == PopExpired(limCalls) IN
  IF Len(q) >= LimMaxCalls
  THEN /\ limCalls' = q
       /\ limPc' = [limPc EXCEPT ![c] = "sleeping"]
       /\ UNCHANGED <<recent, limCompleted>>
  ELSE /\ limCalls' = Append(q, 0)
       /\ recent' = Append(recent, 0)
       /\ limCompleted' = IF limCompleted < MaxWaits THEN limCompleted + 1
                                                     ELSE limCompleted
       /\ limPc' = [limPc EXCEPT ![c] = "idle"]

\* a task calls `await limiter.wait()`
LimCall(c) ==
  /\ limPc[c] = "idle"
  /\ limOpen
  /\ LimRun(c)
  /\ UNCHANGED <<limOpen, limOthers>>

\* the tasks that use the limiter make no further call
LimClose ==
  /\ limOpen
  /\ limOpen' = FALSE
  /\ UNCHANGED <<limCalls, limPc, recent, limCompleted, limOthers>>

\* asyncio.sleep(min(wait_time, 0.01)) is over and the caller runs again
LimWake(c) ==
  /\ limPc[c] = "woken"
  /\ LimRun(c)
  /\ UNCHANGED <<limOpen, limOthers>>

\* 0.01 s pass: every sleep of a caller is over
LimTick ==
  /\ limCalls' = AgeOne(limCalls)
  /\ recent' = SelectSeq(AgeOne(recent), LAMBDA a : a < LimPerTicks)
  /\ limPc' = [c \in LimCallers |->
                 IF limPc[c] = "sleeping" THEN "woken" ELSE limPc[c]]
  /\ UNCHANGED <<limOpen, limCompleted, limOthers>>

NextLimiter ==
  \/ \E c \in LimCallers : LimCall(c)
  \/ LimClose
  \/ \E c \in LimCallers : LimWake(c)
  \/ LimTick

\* time advances, and the event loop runs every caller whose sleep is over
SpecLimiter ==
  /\ InitQuiet
  /\ [][NextLimiter]_vars
  /\ WF_vars(LimTick)
  /\ \A c \in LimCallers : WF_vars(LimWake(c))

\* ---- SolanaClient._execute_with_retry ----
\* _execute_with_retry(func) is called: a new ExponentialBackoff, first func()
RetryStart ==
  /\ retryPc = "idle"
  /\ retryPc' = "call"
  /\ retryAttempts' = 0
  /\ backoffCurrent' = BackoffMinDelayMs
  /\ lastOutcome' = NoOutcome
  /\ sleepBase' = 0
  /\ sleepActual' = 0
  /\ UNCHANGED retryOthers

\* `await func()` comes back with o; reset() runs only if func() returned
FuncDone(o) ==
  /\ retryPc = "call"
  /\ retryAttempts < MaxAttempts
  /\ retryAttempts' = retryAttempts + 1
  /\ lastOutcome' = o
  /\ LET current == IF o.kind \in {"ok", "rpc_error"} THEN BackoffMinDelayMs
                                                       ELSE backoffCurrent IN
     IF o.kind = "ok"
     THEN /\ retryPc' = "returned" /\ backoffCurrent' = current
          /\ UNCHANGED <<sleepBase, sleepActual>>
     ELSE IF RateLimited(o)
     THEN /\ retryPc' = "backoff" /\ backoffCurrent' = BackoffNext(current)
          /\ sleepBase' = current
          /\ \E j \in JitterChoices : sleepActual' = SleepDelay(current, j)
     ELSE /\ retryPc' = "raised" /\ backoffCurrent' = current
          /\ UNCHANGED <<sleepBase, sleepActual>>
  /\ UNCHANGED retryOthers

\* the sleep of backoff.delay() is over: `continue`
RetryBackoffDone ==
  /\ retryPc = "backoff"
  /\ retryPc' = "call"
  /\ lastOutcome' = NoOutcome
  /\ UNCHANGED <<retryAttempts, backoffCurrent, sleepBase, sleepActual,
                 retryOthers>>

NextRetry ==
  \/ RetryStart
  \/ \E o \in FuncOutcomes : FuncDone(o)
  \/ RetryBackoffDone

SpecRetry == InitQuiet /\ [][NextRetry]_vars

\* ---- SolanaClient.get_latest_blockhash / _fetch_blockhash ----
\* get_latest_blockhash() up to its await (a fetch) or its return (the cache)
BhCall(c) ==
  /\ bhPc[c] = "idle"
  /\ LET fetch == bhCached = -1 \/ Stale(bhAge) IN
     /\ bhLastCall' = [made |-> TRUE, empty |-> bhCached = -1,
                       age |-> bhAge, rpc |-> fetch]
     /\ IF fetch
        THEN /\ bhFetches < MaxFetches
             /\ bhFetches' = bhFetches + 1
             /\ bhRequest' = DefaultCommitment
             /\ bhPc' = [bhPc EXCEPT ![c] = "fetching"]
             /\ UNCHANGED bhLastRet
        ELSE /\ bhLastRet' = [made |-> TRUE, fromCache |-> TRUE,
                              age |-> bhAge, value |-> bhCached]
             /\ bhNewest' = Newer(bhNewest, bhCached)
             /\ UNCHANGED <<bhFetches, bhRequest, bhPc>>
     /\ fetch => UNCHANGED bhNewest
  /\ UNCHANGED <<bhCached, bhAge, bhServed, bhIssued, bhOthers>>

\* the RPC node answers c's getLatestBlockhash with the hash that is the
\* latest at that moment; the response is then on its way to the client
BhServe(c) ==
  /\ bhPc[c] = "fetching"
  /\ bhServed[c] = -1
  /\ bhIssued' = bhIssued + 1
  /\ bhServed' = [bhServed EXCEPT ![c] = bhIssued + 1]
  /\ UNCHANGED <<bhCached, bhAge, bhPc, bhFetches, bhRequest, bhLastCall,
                 bhLastRet, bhNewest, bhOthers>>

\* _fetch_blockhash: the RPC returns (cache and timestamp are set) or raises
BhFetchDone(c, ok) ==
  /\ bhPc[c] = "fetching"
  /\ ok => bhServed[c] # -1
  /\ bhPc' = [bhPc EXCEPT ![c] = "idle"]
  /\ bhServed' = [bhServed EXCEPT ![c] = -1]
  /\ IF ok
     THEN /\ bhCached' = bhServed[c]
          /\ bhAge' = 0
          /\ bhLastRet' = [made |-> TRUE, fromCache |-> FALSE, age |-> 0,
                           value |-> bhServed[c]]
          /\ bhNewest' = Newer(bhNewest, bhServed[c])
     ELSE UNCHANGED <<bhCached, bhAge, bhLastRet, bhNewest>>
  /\ UNCHANGED <<bhFetches, bhRequest, bhLastCall, bhIssued, bhOthers>>

\* one second passes; an age beyond the ttl is not counted further
BhTick ==
  /\ bhCached # -1
  /\ bhAge <= BlockhashTtl
  /\ bhAge' = bhAge + 1
  /\ UNCHANGED <<bhCached, bhPc, bhFetches, bhRequest, bhLastCall, bhLastRet,
                 bhServed, bhIssued, bhNewest, bhOthers>>

NextBlockhash ==
  \/ \E c \in BhCallers : BhCall(c)
  \/ \E c \in BhCallers : BhServe(c)
  \/ \E c \in BhCallers, ok \in BOOLEAN : BhFetchDone(c, ok)
  \/ BhTick

SpecBlockhash == InitQuiet /\ [][NextBlockhash]_vars


\* ---- SolanaClient.build_and_send_transaction ----
\* the try block of an attempt ended without exception: on the plain path
\* `success` holds what confirm_transaction returned, on the Jito path that
\* value is dropped; the for loop goes on, `return sig, success` follows it
AttemptPassed ==
  /\ bsSuccess' = IF bsArgs.jito THEN bsSuccess ELSE TRUE
  /\ IF bsAttempt = bsArgs.max_retries - 1
     THEN bsPc' = "returned" /\ UNCHANGED bsAttempt
     ELSE bsPc' = "send" /\ bsAttempt' = bsAttempt + 1
  /\ UNCHANGED <<bsSlept, bsFailed>>

\* the except clause of an attempt: raise on the last one, else sleep
AttemptFailed ==
  /\ bsFailed' = bsFailed \cup {bsAttempt}
  /\ IF bsAttempt = bsArgs.max_retries - 1
     THEN bsPc' = "raised" /\ UNCHANGED bsSlept
     ELSE /\ bsPc' = "sleep"
          /\ bsSlept' = Append(bsSlept, [attempt |-> bsAttempt,
                                          ms |-> WaitTimeMs(bsAttempt)])
  /\ UNCHANGED <<bsAttempt, bsSuccess>>

\* the call, up to the first await of the loop; with max_retries = 0 the loop
\* body never runs and `return sig, success` finds sig unbound
BsCall(args) ==
  /\ bsPc = "idle"
  /\ bsArgs' = args
  /\ bsPc' = IF args.max_retries = 0 THEN "raised" ELSE "send"
  /\ UNCHANGED <<bsAttempt, bsSends, bsPolls, bsObserved, bsSuccess, bsSlept,
                 bsFailed, sendOthers>>

\* the transaction goes out (client.send_transaction, or the POST to Jito) and
\* the submission is accepted or fails; confirm_transaction with max_retries
\* = 0 returns True at once
BsSend(ok) ==
  /\ bsPc = "send"
  /\ bsSends' = bsSends + 1
  /\ bsPolls' = 0
  /\ IF ~ok
     THEN AttemptFailed
     ELSE IF bsArgs.max_confirm_retries = 0
     THEN AttemptPassed
     ELSE /\ bsPc' = "confirm"
          /\ UNCHANGED <<bsAttempt, bsSuccess, bsSlept, bsFailed>>
  /\ UNCHANGED <<bsArgs, bsObserved, sendOthers>>

\* one poll of confirm_transaction: a status with confirmations returns True;
\* no such status, or an exception, sleeps 1 s, and after the last poll the
\* bare `raise` fails the attempt
BsPoll(o) ==
  /\ bsPc = "confirm"
  /\ bsPolls' = bsPolls + 1
  /\ bsObserved' = (bsObserved \/ o = "confirmed")
  /\ IF o = "confirmed"
     THEN AttemptPassed
     ELSE IF bsPolls + 1 = bsArgs.max_confirm_retries
     THEN AttemptFailed
     ELSE UNCHANGED <<bsPc, bsAttempt, bsSuccess, bsSlept, bsFailed>>
  /\ UNCHANGED <<bsArgs, bsSends, sendOthers>>

\* asyncio.sleep(wait_time) is over: the next attempt
BsSleepDone ==
  /\ bsPc = "sleep"
  /\ bsPc' = "send"
  /\ bsAttempt' = bsAttempt + 1
  /\ UNCHANGED <<bsArgs, bsSends, bsPolls, bsObserved, bsSuccess, bsSlept,
                 bsFailed, sendOthers>>

NextSend ==
  \/ \E r \in SendRetryChoices, c \in ConfirmRetryChoices, j \in BOOLEAN,
        sz \in TxSizes :
       BsCall([max_retries |-> r, max_confirm_retries |-> c, jito |-> j,
               size |-> sz])
  \/ \E ok \in BOOLEAN : BsSend(ok)
  \/ \E o \in {"confirmed", "pending", "error"} : BsPoll(o)
  \/ BsSleepDone

SpecSend == InitQuiet /\ [][NextSend]_vars


\* ---- WalletManager._gross_net_for_target_net ----
PlanCall(target, bps, maxGross, maxFee) ==
  /\ plan = NoPlan
  /\ plan' = [target_net |-> target, fee_bps |-> bps, max_gross |-> maxGross,
              max_fee |-> maxFee,
              result |-> GrossNetForTargetNet(target, bps, maxGross, maxFee)]
  /\ UNCHANGED planOthers

NextPlan ==
  \E t \in PlanTargets, b \in PlanFeeBps, g \in PlanMaxGross,
     f \in PlanMaxFees : PlanCall(t, b, g, f)

SpecPlan == InitQuiet /\ [][NextPlan]_vars

\* ---- WalletManager.hide_supply ----
\* the call up to the first push: mint checks, target range, planning
HsCall(target, mint) ==
  /\ hsPc = "idle"
  /\ LET hops == GrossNetForTargetNet(target, HideFeeBps, HideSupply,
                                      HideFeeMax)
         n == Len(hops.gross)
         lastNet == IF n = 0 THEN 0
                    ELSE hops.gross[n] - FeeOf(hops.gross[n], HideFeeBps,
                                               HideFeeMax)
         burnDelta == BurnDelta(lastNet, target)
     IN
     IF mint # "ok"
     THEN /\ hsPc' = "done" /\ hsResult' = Failure(mint)
          /\ UNCHANGED <<hsTodo, hsPlan>>
     ELSE IF target <= 0 \/ target > HideSupply
     THEN /\ hsPc' = "done"
          /\ hsResult' = Failure("target out of range")
          /\ UNCHANGED <<hsTodo, hsPlan>>
     ELSE IF hops.kind # "list"
     THEN hsPc' = "raised" /\ UNCHANGED <<hsResult, hsTodo, hsPlan>>
     ELSE IF n = 0
     THEN /\ hsPc' = "done"
          /\ hsResult' = Failure("planning failed: empty hops")
          /\ UNCHANGED <<hsTodo, hsPlan>>
     ELSE /\ hsPc' = "push"
          /\ hsTodo' = HopIxs(1, hops.gross, burnDelta)
          /\ hsPlan' = [hops |-> hops.gross, target |-> target,
                        last_net |-> lastNet, burn_delta |-> burnDelta]
          /\ UNCHANGED hsResult
  /\ UNCHANGED <<batchIxs, batchSigners, hsSigs, hsPushed, held, hideOthers>>

\* push(ix): the instruction joins the batch, after a flush if the batch
\* would grow beyond the packet limit; flush of an empty batch returns at once
HsPush ==
  /\ hsPc = "push"
  /\ hsTodo # <<>>
  /\ LET ix == Head(hsTodo)
         newSigs == batchSigners \cup ix.signers \cup {0}
     IN
     IF /\ EstSize(Append(batchIxs, ix), Cardinality(newSigs)) > PACKET_LIMIT
        /\ batchIxs # <<>>
     THEN hsPc' = "flush" /\ UNCHANGED <<hsTodo, batchIxs, batchSigners, hsPushed>>
     ELSE /\ batchIxs' = Append(batchIxs, ix)
          /\ batchSigners' = batchSigners \cup ix.signers
          /\ hsTodo' = Tail(hsTodo)
          /\ hsPushed' = Append(hsPushed, ix)
          /\ UNCHANGED hsPc
  /\ UNCHANGED <<hsSigs, hsResult, hsPlan, held, hideOthers>>

\* `await flush("final")` after the loop
HsFinal ==
  /\ hsPc = "push"
  /\ hsTodo = <<>>
  /\ hsPc' = "final_flush"
  /\ UNCHANGED <<hsTodo, batchIxs, batchSigners, hsSigs, hsResult, hsPlan,
                 hsPushed, held, hideOthers>>

\* build_and_send_transaction of flush returns or raises; the except clause
\* logs and puts "" in the place of the signature, and the caller goes on
HsFlushDone(ok, selfEffect) ==
  /\ hsPc \in {"flush", "final_flush"}
  /\ LET after == ApplyIxs(batchIxs, [ok |-> TRUE, bal |-> held], selfEffect)
     IN /\ ok => after.ok
        /\ held' = IF ok THEN after.bal ELSE held
  /\ hsSigs' = Append(hsSigs, IF ok THEN "sig" ELSE "")
  /\ IF hsPc = "flush"
     THEN /\ batchIxs' = <<Head(hsTodo)>>
          /\ batchSigners' = Head(hsTodo).signers
          /\ hsTodo' = Tail(hsTodo)
          /\ hsPushed' = Append(hsPushed, Head(hsTodo))
          /\ hsPc' = "push"
          /\ UNCHANGED hsResult
     ELSE /\ batchIxs' = <<>>
          /\ batchSigners' = {}
          /\ hsPc' = "done"
          /\ hsResult' = [success |-> TRUE, error |-> "none",
                          tx_signatures |-> hsSigs',
                          last_net |-> hsPlan.last_net,
                          target |-> hsPlan.target,
                          burn_delta |-> hsPlan.burn_delta]
          /\ UNCHANGED <<hsTodo, hsPushed>>
  /\ UNCHANGED <<hsPlan, hideOthers>>

NextHide ==
  \/ \E t \in HideTargets, m \in MintStates : HsCall(t, m)
  \/ HsPush
  \/ HsFinal
  \/ \E ok \in BOOLEAN, e \in SelfTransferEffects : HsFlushDone(ok, e)

SpecHide == InitQuiet /\ [][NextHide]_vars


\* ---- Bablo._monitor_pnl_wrapper ----
\* the wrapper starts: init_sol = self.wsol_amount_ui
PnlWrapperStart(th) ==
  /\ ovInit = -1
  /\ ovInit' = LamportsAmount
  /\ ovThreshold' = th
  /\ UNCHANGED <<ovUpdates, ovEvent, pnlOthers>>

\* on_value(lamports)
OnValue(lamports) ==
  /\ ovInit # -1
  /\ Len(ovUpdates) < MaxUpdates
  /\ ovUpdates' = Append(ovUpdates, lamports)
  /\ ovEvent' = (ovEvent \/ Pnl(lamports, ovInit) >= ovThreshold)
  /\ UNCHANGED <<ovInit, ovThreshold, pnlOthers>>

NextPnl ==
  \/ \E th \in ProfitThresholds : PnlWrapperStart(th)
  \/ \E l \in VaultValues : OnValue(l)

SpecPnl == InitQuiet /\ [][NextPnl]_vars


\* ---- operator boundaries ----
\* BabloController.set_param(key, value): the branch of the key assigns or
\* raises; save_config runs only if nothing was raised
SetParam(key, value) ==
  LET error ==
        CASE key = "mode" ->
               IF value \notin {"manual", "auto"}
               THEN "mode must be manual|auto" ELSE ""
          [] key = "timeout" ->
               IF IntOf(value) = -1 THEN "invalid literal for int()" ELSE ""
          [] OTHER -> "unknown parameter"
      after ==
        CASE error # "" -> ctl
          [] key = "mode" -> [ctl EXCEPT !.mode = value]
          [] key = "timeout" -> [ctl EXCEPT !.cycle_timeout_sec = IntOf(value)]
  IN /\ ctl' = after
     /\ ctlSaved' = IF error = "" THEN after ELSE ctlSaved
     /\ ctlLast' = [key |-> key, value |-> value, before |-> ctl,
                    error |-> error]
     /\ UNCHANGED ctlOthers

\* the mode command of run_cli and of the bot, after its `await bablo.stop()`
\* has returned: the object get_config() returns gets the lowered word as its
\* mode and is handed to set_config, which does not raise as no worker runs
ModeCommand(word) ==
  /\ stopPc = "returned"
  /\ worker # "running"
  /\ cfg' = [cfg EXCEPT !.mode = Lower(word)]
  /\ stopPc' = "idle"
  /\ stopHit' = "none"
  /\ UNCHANGED <<stopEvent, worker, pc, cancelReq, excAlerts, iters, starts,
                 cycleVars, lockVars, userVars, dev, fundVars, extVars>>

NextBoundary ==
  \/ \E k \in ParamKeys, v \in ParamValues : SetParam(k, v)
  \/ StopCall
  \/ \E w \in ModeWords : ModeCommand(w)

SpecBoundary == InitQuiet /\ [][NextBoundary]_vars


\* ---- Bablo.set_config ----
\* set_config(c): raises while the worker task is alive, else replaces _cfg
SetConfig(c) ==
  /\ setConfigs < MaxSetConfigs
  /\ setConfigs' = setConfigs + 1
  /\ setConfigRaised' = WorkerBusy(worker)
  /\ cfg' = IF WorkerBusy(worker) THEN cfg ELSE c
  /\ UNCHANGED <<stopEvent, worker, pc, cancelReq, excAlerts, iters, starts,
                 cycleVars, stopVars, lockVars, userVars, dev, fundVars,
                 setCfgOthers>>


\* ---- Bablo._prepare_liquidity_pool ----
PreparePool(mint, tokenAmount, lamportsAmount) ==
  LET first == IsTokenFirst(mint)
      mint0 == IF first THEN mint ELSE SOL_WRAPPED_MINT
      mint1 == IF first THEN SOL_WRAPPED_MINT ELSE mint
      poolState == PoolAddress(mint0, mint1)
      vault0 == VaultAddress(poolState, mint0)
      vault1 == VaultAddress(poolState, mint1)
  IN
  /\ pool = NoPool
  /\ pool' = [token_mint0 |-> mint0,
              token_mint1 |-> mint1,
              token_0_program |-> IF first THEN "token2022" ELSE "token",
              token_1_program |-> IF first THEN "token" ELSE "token2022",
              token_mint0_amount |-> IF first THEN tokenAmount
                                              ELSE lamportsAmount,
              token_mint1_amount |-> IF first THEN lamportsAmount
                                              ELSE tokenAmount,
              pool_state |-> poolState,
              token0_vault |-> vault0,
              token1_vault |-> vault1,
              liq_vault |-> IF first THEN vault1 ELSE vault0,
              created |-> mint, token_amount |-> tokenAmount,
              lamports_amount |-> lamportsAmount]
  /\ UNCHANGED poolOthers

NextPool ==
  \E m \in CreatedMints, t \in TokenAmounts, l \in PoolLamports :
    PreparePool(m, t, l)

SpecPool == InitQuiet /\ [][NextPool]_vars


\* ---- WalletManager._gross_net_for_target_net, pass by pass ----
\* the call up to the first test of the while loop (the arguments pass the
\* early returns: target_net > 0, max_gross > 0, 0 < fee_bps <= 100000)
LpCall(a) ==
  /\ lpPc = "idle"
  /\ lpArgs = NoLpArgs
  /\ lpArgs' = a
  /\ lpPc' = "loop"
  /\ lpG' = a.max_gross
  /\ lpHop' = 0
  /\ lpList' = <<>>
  /\ UNCHANGED <<lpBroke, lpResult, lpOthers>>

\* one pass of `while g > 0 and hop < MAX_HOPS`
LpPass ==
  /\ lpPc = "loop"
  /\ lpG > 0 /\ lpHop < MAX_HOPS
  /\ lpHop' = lpHop + 1
  /\ LET net == NetOf(lpG, lpArgs.fee_bps, lpArgs.max_fee) IN
     IF LoopBreaks(net, lpArgs.target_net)
     THEN /\ lpBroke' = TRUE
          /\ lpPc' = "after"
          /\ UNCHANGED <<lpG, lpList>>
     ELSE /\ lpList' = Append(lpList, lpG)
          /\ lpG' = net
          /\ UNCHANGED <<lpBroke, lpPc>>
  /\ UNCHANGED <<lpArgs, lpResult, lpOthers>>

\* the while test fails
LpExhausted ==
  /\ lpPc = "loop"
  /\ ~(lpG > 0 /\ lpHop < MAX_HOPS)
  /\ lpPc' = "after"
  /\ UNCHANGED <<lpArgs, lpG, lpHop, lpList, lpBroke, lpResult, lpOthers>>

\* after the loop: the hop guard, the continuity check, the return
LpFinish ==
  /\ lpPc = "after"
  /\ lpPc' = "done"
  /\ lpResult' = IF lpHop >= MAX_HOPS THEN Raises("RuntimeError")
                 ELSE IF ~Continuous(lpList, lpArgs.fee_bps)
                 THEN Raises("AssertionError")
                 ELSE Returns(lpList)
  /\ UNCHANGED <<lpArgs, lpG, lpHop, lpList, lpBroke, lpOthers>>

NextLoop ==
  \/ \E a \in LoopCalls : LpCall(a)
  \/ LpPass
  \/ LpExhausted
  \/ LpFinish

SpecLoop == InitQuiet /\ [][NextLoop]_vars


\* ---- WalletManager.distribute_via_chain ----
\* the call for one destination, up to the loop over the hops: three temp
\* wallets are created, hops and amounts are laid out
DvcStart(base, fee) ==
  /\ dvcPc = "idle"
  /\ dvcArgs = NoChainArgs
  /\ dvcArgs' = [base_amount |-> base, fee_lamports |-> fee]
  /\ dvcPc' = "submit"
  /\ UNCHANGED <<dvcHop, dvcSubmitted, dvcLanded, dvcBal, dvcOk, dvcOthers>>

\* the next pass of `for (sender, receiver), lamports in zip(hops, amounts)`:
\* the transfer is built and build_and_send_transaction is awaited
DvcSubmit ==
  /\ dvcPc = "submit"
  /\ dvcHop < TotalHops
  /\ dvcSubmitted' = Append(dvcSubmitted,
       [hop |-> dvcHop, sender |-> dvcHop, receiver |-> dvcHop + 1,
        lamports |-> HopAmount(dvcArgs.base_amount, dvcArgs.fee_lamports,
                               dvcHop)])
  /\ dvcPc' = "inflight"
  /\ UNCHANGED <<dvcArgs, dvcHop, dvcLanded, dvcBal, dvcOk, dvcOthers>>

\* build_and_send_transaction comes back: it returns (sig, ok) or raises;
\* the chain has executed the transfer (landed) or not, and executes it only
\* if the sender, who pays the fee, holds the lamports and the fee
DvcReturn(outcome, landed) ==
  /\ dvcPc = "inflight"
  /\ LET tx == dvcSubmitted[Len(dvcSubmitted)]
         cost == tx.lamports + ChainTxFee
     IN
     /\ outcome = "confirmed" => landed
     /\ landed => dvcBal[tx.sender] >= cost
     /\ dvcBal' = IF landed
                  THEN [dvcBal EXCEPT ![tx.sender] = @ - cost,
                                      ![tx.receiver] = @ + tx.lamports]
                  ELSE dvcBal
     /\ dvcLanded' = IF landed THEN dvcLanded \cup {tx.hop} ELSE dvcLanded
  /\ dvcHop' = dvcHop + 1
  /\ IF outcome = "raised"
     THEN dvcPc' = "failed" /\ dvcOk' = FALSE
     ELSE /\ dvcPc' = IF dvcHop + 1 = TotalHops THEN "done" ELSE "submit"
          /\ dvcOk' = (dvcOk /\ outcome = "confirmed")
  /\ UNCHANGED <<dvcArgs, dvcSubmitted, dvcOthers>>

NextChain ==
  \/ \E b \in ChainBaseAmounts, f \in ChainFeeLamports : DvcStart(b, f)
  \/ DvcSubmit
  \/ \E o \in {"confirmed", "unconfirmed", "raised"}, l \in BOOLEAN :
       DvcReturn(o, l)

SpecChain == InitQuiet /\ [][NextChain]_vars


\* ---- WalletManager: persisting keypairs ----
\* WalletManager.__init__: the fund keypair is read from the environment and
\* persisted, then self._dev = self._create_dev()
WmConstruct(fundOk, devOk) ==
  /\ wmPc = "none"
  /\ IF CreationFails(fundOk)
     THEN /\ wmPc' = "broken"
          /\ wmDisk' = Written(wmDisk, FundKey, fundOk)
          /\ UNCHANGED <<wmMade, wmDev>>
     ELSE /\ wmMade' = wmMade + 1
          /\ wmDisk' = Written(Written(wmDisk, FundKey, fundOk),
                               wmMade + 1, devOk)
          /\ IF CreationFails(devOk)
             THEN wmPc' = "broken" /\ UNCHANGED wmDev
             ELSE wmPc' = "ready" /\ wmDev' = wmMade + 1
  /\ UNCHANGED <<wmTemps, wmTargets, wmOthers>>

\* update_dev(): self._dev = self._create_dev(), which generates a keypair,
\* persists it and only then returns it
WmUpdateDev(writeOk) ==
  /\ wmPc = "ready"
  /\ wmMade < MaxWallets
  /\ wmMade' = wmMade + 1
  /\ wmDisk' = Written(wmDisk, wmMade + 1, writeOk)
  /\ wmDev' = IF CreationFails(writeOk) THEN wmDev ELSE wmMade + 1
  /\ UNCHANGED <<wmPc, wmTemps, wmTargets, wmOthers>>

\* _distribute_lamports_unlocked: a transfer fund -> self.dev_pubkey
WmDistribute ==
  /\ wmPc = "ready"
  /\ wmTargets' = wmTargets \cup {wmDev}
  /\ UNCHANGED <<wmPc, wmMade, wmDisk, wmDev, wmTemps, wmOthers>>

\* _withdraw_to_fund_unlocked: a transfer dev -> self.fund_pubkey
WmWithdraw ==
  /\ wmPc = "ready"
  /\ wmTargets' = wmTargets \cup {FundKey}
  /\ UNCHANGED <<wmPc, wmMade, wmDisk, wmDev, wmTemps, wmOthers>>

\* _create_temp_wallet(): a keypair is generated, its JSON is written to
\* temp_wallets_dir, then the Wallet is returned
TempCreate(writeOk) ==
  /\ wmMade < MaxWallets
  /\ wmMade' = wmMade + 1
  /\ wmDisk' = Written(wmDisk, wmMade + 1, writeOk)
  /\ wmTemps' = IF CreationFails(writeOk) THEN wmTemps
                ELSE wmTemps \cup {wmMade + 1}
  /\ UNCHANGED <<wmPc, wmDev, wmTargets, wmOthers>>

\* distribute_via_chain and hide_supply submit a transfer into a temp wallet
\* they hold
TempTransfer(k) ==
  /\ k \in wmTemps
  /\ wmTargets' = wmTargets \cup {k}
  /\ UNCHANGED <<wmPc, wmMade, wmDisk, wmDev, wmTemps, wmOthers>>

NextWallets ==
  \/ \E f \in BOOLEAN, d \in BOOLEAN : WmConstruct(f, d)
  \/ \E ok \in BOOLEAN : WmUpdateDev(ok)
  \/ WmDistribute
  \/ WmWithdraw
  \/ \E ok \in BOOLEAN : TempCreate(ok)
  \/ \E k \in 1..MaxWallets : TempTransfer(k)

SpecWallets == InitQuiet /\ [][NextWallets]_vars


\* ---- Bablo.start / Bablo.stop ----
\* start(): return if the worker task exists and is not done; else clear the
\* stop event and create the working-loop task
LcStart ==
  LET n == Cardinality({t \in TaskIds : lcTasks[t] # "none"}) + 1 IN
  /\ n <= MaxTasks
  /\ IF HasLiveWorker(lcWorker, lcTasks)
     THEN /\ lcLast' = [made |-> TRUE, alive |-> Cardinality(AliveTasks(lcTasks)),
                        created |-> FALSE, flag |-> lcStopEvent,
                        afterStop |-> lcStopped]
          /\ UNCHANGED <<lcTasks, lcWorker, lcStopEvent, lcStopped>>
     ELSE /\ lcStopEvent' = FALSE
          /\ lcTasks' = [lcTasks EXCEPT ![n] = "running"]
          /\ lcWorker' = n
          /\ lcStopped' = FALSE
          /\ lcLast' = [made |-> TRUE, alive |-> Cardinality(AliveTasks(lcTasks)),
                        created |-> TRUE, flag |-> FALSE,
                        afterStop |-> lcStopped]
  /\ UNCHANGED <<lcStopPc, lcAwaited, lcOthers>>

\* stop() up to `await self._worker_task`: set the stop event, cancel the
\* worker if it is not done (self._pnl_task is never assigned)
LcStopCall(c) ==
  /\ lcStopPc[c] = "idle"
  /\ lcStopEvent' = TRUE
  /\ IF HasLiveWorker(lcWorker, lcTasks)
     THEN /\ lcTasks' = [lcTasks EXCEPT ![lcWorker] = "cancelling"]
          /\ lcStopPc' = [lcStopPc EXCEPT ![c] = "await_worker"]
          /\ lcAwaited' = [lcAwaited EXCEPT ![c] = lcWorker]
          /\ UNCHANGED lcStopped
     ELSE /\ lcStopped' = TRUE
          /\ UNCHANGED <<lcTasks, lcStopPc, lcAwaited>>
  /\ UNCHANGED <<lcWorker, lcLast, lcOthers>>

\* the awaited task is done: stop() returns
LcStopReturns(c) ==
  /\ lcStopPc[c] = "await_worker"
  /\ lcTasks[lcAwaited[c]] = "done"
  /\ lcStopPc' = [lcStopPc EXCEPT ![c] = "idle"]
  /\ lcAwaited' = [lcAwaited EXCEPT ![c] = 0]
  /\ lcStopped' = TRUE
  /\ UNCHANGED <<lcTasks, lcWorker, lcStopEvent, lcLast, lcOthers>>

\* working_loop leaves its `while not self._stopped()` loop, or an exception
\* ends it
LcLoopEnds(t) ==
  /\ lcTasks[t] = "running"
  /\ lcTasks' = [lcTasks EXCEPT ![t] = "done"]
  /\ UNCHANGED <<lcWorker, lcStopEvent, lcStopPc, lcAwaited, lcStopped,
                 lcLast, lcOthers>>

\* the CancelledError reaches working_loop, whose except clause ends the task
LcCancelled(t) ==
  /\ lcTasks[t] = "cancelling"
  /\ lcTasks' = [lcTasks EXCEPT ![t] = "done"]
  /\ UNCHANGED <<lcWorker, lcStopEvent, lcStopPc, lcAwaited, lcStopped,
                 lcLast, lcOthers>>

NextLifecycle ==
  \/ LcStart
  \/ \E c \in StopCallers : LcStopCall(c)
  \/ \E c \in StopCallers : LcStopReturns(c)
  \/ \E t \in TaskIds : LcLoopEnds(t)
  \/ \E t \in TaskIds : LcCancelled(t)

SpecLifecycle == InitQuiet /\ [][NextLifecycle]_vars


\* ---- BabloController ----
\* BabloController(cfg, bot, admin_chat_id); runner.py passes admin_chat_id =
\* None when no admin is configured, and facade._send then returns at once
BcConstruct(suspends) ==
  /\ bcCtl = "none"
  /\ bcCtl' = "ready"
  /\ bcSendSuspends' = suspends
  /\ UNCHANGED <<bcBablo, bcBuilt, bcWorker, bcWaiters, bcLocked,
                 bcLockWaiters, bcReady, bcSt, bcPc, bcRaised, bcOthers>>

\* an operator command arrives: the handler task that calls run_once() or
\* stop() becomes ready
BcCall(u, op) ==
  /\ bcCtl = "ready"
  /\ bcSt[u] = "idle"
  /\ op = "run_once" => bcBuilt < MaxBablos
  /\ bcPc' = [bcPc EXCEPT ![u] = IF op = "run_once" THEN "ro_acquire"
                                                     ELSE "st_acquire"]
  /\ bcSt' = [bcSt EXCEPT ![u] = "ready"]
  /\ bcReady' = Append(bcReady, u)
  /\ UNCHANGED <<bcCtl, bcSendSuspends, bcBablo, bcBuilt, bcWorker, bcWaiters,
                 bcLocked, bcLockWaiters, bcRaised, bcOthers>>

\* set_param("autorun", "on"): create_task(self._autorun_loop())
BcAutorunOn ==
  /\ bcCtl = "ready"
  /\ bcPc["auto"] = "off"
  /\ bcPc' = [bcPc EXCEPT !["auto"] = "au_begin"]
  /\ bcSt' = [bcSt EXCEPT !["auto"] = "ready"]
  /\ bcReady' = Append(bcReady, "auto")
  /\ UNCHANGED <<bcCtl, bcSendSuspends, bcBablo, bcBuilt, bcWorker, bcWaiters,
                 bcLocked, bcLockWaiters, bcRaised, bcOthers>>

\* the event loop runs the first task of its ready queue when the task that
\* was running has suspended or ended
BcDispatch ==
  /\ \A t \in BcTasks : bcSt[t] # "running"
  /\ bcReady # <<>>
  /\ bcSt' = [bcSt EXCEPT ![Head(bcReady)] = "running"]
  /\ bcReady' = Tail(bcReady)
  /\ UNCHANGED <<bcCtl, bcSendSuspends, bcBablo, bcBuilt, bcWorker, bcWaiters,
                 bcLocked, bcLockWaiters, bcPc, bcRaised, bcOthers>>

\* the network answers a send, or the timer of asyncio.sleep fires
BcIoDone(t) ==
  /\ bcSt[t] = "io"
  /\ (t = "auto" /\ bcPc[t] = "au_loop") => bcBuilt < MaxBablos
  /\ bcSt' = [bcSt EXCEPT ![t] = "ready"]
  /\ bcReady' = Append(bcReady, t)
  /\ UNCHANGED <<bcCtl, bcSendSuspends, bcBablo, bcBuilt, bcWorker, bcWaiters,
                 bcLocked, bcLockWaiters, bcPc, bcRaised, bcOthers>>

\* a working loop takes its last step (its except clause swallowed the
\* cancellation, an exception was reported, or the stop flag was seen): the
\* tasks awaiting it are put on the ready queue in the order they began to
\* wait
BcWorkerEnds(k) ==
  /\ bcWorker[k] \in {"running", "cancelling"}
  /\ \A t \in BcTasks : bcSt[t] # "running"
  /\ bcWorker' = [bcWorker EXCEPT ![k] = "done"]
  /\ bcReady' = bcReady \o bcWaiters[k]
  /\ bcSt' = [t \in BcTasks |->
                IF \E i \in 1..Len(bcWaiters[k]) : bcWaiters[k][i] = t
                THEN "ready" ELSE bcSt[t]]
  /\ bcWaiters' = [bcWaiters EXCEPT ![k] = <<>>]
  /\ UNCHANGED <<bcCtl, bcSendSuspends, bcBablo, bcBuilt, bcLocked,
                 bcLockWaiters, bcPc, bcRaised, bcOthers>>

\* `async with self._run_lock` as entered by run_once (next = "ro_guard") and
\* by stop (next = "st_guard"): taken at once when free with no waiter, else
\* the task queues; a woken waiter leaves the queue and takes the lock
BcAcquire(t) ==
  LET next == IF bcPc[t] \in {"ro_acquire", "ro_locked"} THEN "ro_guard"
                                                         ELSE "st_guard"
      wait == IF bcPc[t] = "ro_acquire" THEN "ro_locked" ELSE "st_locked" IN
  /\ bcSt[t] = "running"
  /\ bcPc[t] \in {"ro_acquire", "st_acquire", "ro_locked", "st_locked"}
  /\ IF bcPc[t] \in {"ro_locked", "st_locked"}
     THEN /\ bcLockWaiters' = Tail(bcLockWaiters)
          /\ bcLocked' = TRUE
          /\ bcPc' = [bcPc EXCEPT ![t] = next]
          /\ UNCHANGED bcSt
     ELSE IF ~bcLocked /\ bcLockWaiters = <<>>
     THEN /\ bcLocked' = TRUE
          /\ bcPc' = [bcPc EXCEPT ![t] = next]
          /\ UNCHANGED <<bcLockWaiters, bcSt>>
     ELSE /\ bcLockWaiters' = Append(bcLockWaiters, t)
          /\ bcPc' = [bcPc EXCEPT ![t] = wait]
          /\ bcSt' = [bcSt EXCEPT ![t] = "lock"]
          /\ UNCHANGED bcLocked
  /\ UNCHANGED <<bcCtl, bcSendSuspends, bcBablo, bcBuilt, bcWorker, bcWaiters,
                 bcReady, bcRaised, bcOthers>>

\* run_once under the lock: the guard, then either the "already running"
\* message or self.bablo = self._build_bablo() and the start message
BcRunOnceGuard(t) ==
  /\ bcSt[t] = "running"
  /\ bcPc[t] = "ro_guard"
  /\ IF CycleRunning(bcBablo, bcWorker)
     THEN /\ bcPc' = [bcPc EXCEPT ![t] = "ro_exit"]
          /\ UNCHANGED <<bcBablo, bcBuilt>>
     ELSE /\ bcBuilt' = bcBuilt + 1
          /\ bcBablo' = bcBuilt + 1
          /\ bcPc' = [bcPc EXCEPT ![t] = "ro_start"]
  /\ bcSt' = AfterSend(bcSt, t, bcSendSuspends)
  /\ UNCHANGED <<bcCtl, bcSendSuspends, bcWorker, bcWaiters, bcLocked,
                 bcLockWaiters, bcReady, bcRaised, bcOthers>>

\* the end of run_once: self.bablo.start() (AttributeError when self.bablo is
\* None), the lock is released, the caller goes on
BcRunOnceEnd(t) ==
  LET failed == bcPc[t] = "ro_start" /\ bcBablo = 0
      st1 == ReleasedSt(bcSt, bcLockWaiters) IN
  /\ bcSt[t] = "running"
  /\ bcPc[t] \in {"ro_start", "ro_exit"}
  /\ bcWorker' = IF bcPc[t] = "ro_start" /\ bcBablo # 0
                    /\ bcWorker[bcBablo] \in {"none", "done"}
                 THEN [bcWorker EXCEPT ![bcBablo] = "running"]
                 ELSE bcWorker
  /\ bcRaised' = IF failed THEN bcRaised \cup {t} ELSE bcRaised
  /\ bcLocked' = FALSE
  /\ bcReady' = ReleasedReady(bcReady, bcLockWaiters)
  /\ IF t # "auto"
     THEN /\ bcSt' = [st1 EXCEPT ![t] = "idle"]
          /\ bcPc' = [bcPc EXCEPT ![t] = "idle"]
     ELSE IF failed
     THEN /\ bcSt' = AfterSend(st1, t, bcSendSuspends)
          /\ bcPc' = [bcPc EXCEPT ![t] = "au_final"]
     ELSE /\ bcSt' = st1
          /\ bcPc' = [bcPc EXCEPT ![t] = "au_check"]
  /\ UNCHANGED <<bcCtl, bcSendSuspends, bcBablo, bcBuilt, bcWaiters,
                 bcLockWaiters, bcOthers>>

\* stop under the lock: "no active cycle" when self.bablo is None, else
\* `await self.bablo.stop()`, which cancels a worker that is not done and
\* awaits it
BcStopGuard(t) ==
  /\ bcSt[t] = "running"
  /\ bcPc[t] = "st_guard"
  /\ IF bcBablo = 0
     THEN /\ bcPc' = [bcPc EXCEPT ![t] = "st_exit"]
          /\ bcSt' = AfterSend(bcSt, t, bcSendSuspends)
          /\ UNCHANGED <<bcWorker, bcWaiters>>
     ELSE /\ bcPc' = [bcPc EXCEPT ![t] = "st_send"]
          /\ IF CycleRunning(bcBablo, bcWorker)
             THEN /\ bcWorker' = [bcWorker EXCEPT ![bcBablo] = "cancelling"]
                  /\ bcWaiters' = [bcWaiters EXCEPT
                                     ![bcBablo] = Append(@, t)]
                  /\ bcSt' = [bcSt EXCEPT ![t] = "worker"]
             ELSE UNCHANGED <<bcWorker, bcWaiters, bcSt>>
  /\ UNCHANGED <<bcCtl, bcSendSuspends, bcBablo, bcBuilt, bcLocked,
                 bcLockWaiters, bcReady, bcRaised, bcOthers>>

\* the rest of stop: the "stopped" message, then self.bablo = None, and the
\* lock is released
BcStopEnd(t) ==
  /\ bcSt[t] = "running"
  /\ bcPc[t] \in {"st_send", "st_clear", "st_exit"}
  /\ IF bcPc[t] = "st_send"
     THEN /\ bcPc' = [bcPc EXCEPT ![t] = "st_clear"]
          /\ bcSt' = AfterSend(bcSt, t, bcSendSuspends)
          /\ UNCHANGED <<bcBablo, bcLocked, bcReady>>
     ELSE /\ bcBablo' = IF bcPc[t] = "st_clear" THEN 0 ELSE bcBablo
          /\ bcLocked' = FALSE
          /\ bcReady' = ReleasedReady(bcReady, bcLockWaiters)
          /\ bcSt' = [ReleasedSt(bcSt, bcLockWaiters) EXCEPT ![t] = "idle"]
          /\ bcPc' = [bcPc EXCEPT ![t] = "idle"]
  /\ UNCHANGED <<bcCtl, bcSendSuspends, bcBuilt, bcWorker, bcWaiters,
                 bcLockWaiters, bcRaised, bcOthers>>

\* _autorun_loop outside run_once: the first message; an iteration inside or
\* outside the active window; after run_once, `await
\* self.bablo._worker_task` when self.bablo has one, then self.bablo = None;
\* the sleep between iterations; the message of the finally clause
BcAutorun(within) ==
  LET t == "auto" IN
  /\ bcSt[t] = "running"
  /\ bcPc[t] \in {"au_begin", "au_loop", "au_check", "au_clear", "au_sleep",
                  "au_final"}
  /\ CASE bcPc[t] = "au_begin" ->
            /\ bcPc' = [bcPc EXCEPT ![t] = "au_loop"]
            /\ bcSt' = AfterSend(bcSt, t, bcSendSuspends)
            /\ UNCHANGED <<bcBablo, bcWaiters>>
       [] bcPc[t] = "au_loop" ->
            /\ bcPc' = [bcPc EXCEPT ![t] = IF within THEN "ro_acquire"
                                                     ELSE "au_sleep"]
            /\ UNCHANGED <<bcSt, bcBablo, bcWaiters>>
       [] bcPc[t] = "au_check" ->
            IF bcBablo # 0 /\ bcWorker[bcBablo] # "none"
            THEN /\ bcPc' = [bcPc EXCEPT ![t] = "au_clear"]
                 /\ IF bcWorker[bcBablo] # "done"
                    THEN /\ bcWaiters' = [bcWaiters EXCEPT
                                            ![bcBablo] = Append(@, t)]
                         /\ bcSt' = [bcSt EXCEPT ![t] = "worker"]
                    ELSE UNCHANGED <<bcWaiters, bcSt>>
                 /\ UNCHANGED bcBablo
            ELSE /\ bcPc' = [bcPc EXCEPT ![t] = "au_sleep"]
                 /\ UNCHANGED <<bcSt, bcBablo, bcWaiters>>
       [] bcPc[t] = "au_clear" ->
            /\ bcBablo' = 0
            /\ bcPc' = [bcPc EXCEPT ![t] = "au_sleep"]
            /\ UNCHANGED <<bcSt, bcWaiters>>
       [] bcPc[t] = "au_sleep" ->
            /\ bcPc' = [bcPc EXCEPT ![t] = "au_loop"]
            /\ bcSt' = [bcSt EXCEPT ![t] = "io"]
            /\ UNCHANGED <<bcBablo, bcWaiters>>
       [] OTHER ->
            /\ bcPc' = [bcPc EXCEPT ![t] = "au_dead"]
            /\ bcSt' = [bcSt EXCEPT ![t] = "idle"]
            /\ UNCHANGED <<bcBablo, bcWaiters>>
  /\ UNCHANGED <<bcCtl, bcSendSuspends, bcBuilt, bcWorker, bcLocked,
                 bcLockWaiters, bcReady, bcRaised, bcOthers>>

NextController ==
  \/ \E sus \in BOOLEAN : BcConstruct(sus)
  \/ \E u \in BcUsers, op \in {"run_once", "stop"} : BcCall(u, op)
  \/ BcAutorunOn
  \/ BcDispatch
  \/ \E t \in BcTasks : BcIoDone(t)
  \/ \E k \in BabloIds : BcWorkerEnds(k)
  \/ \E t \in BcTasks : BcAcquire(t)
  \/ \E t \in BcTasks : BcRunOnceGuard(t)
  \/ \E t \in BcTasks : BcRunOnceEnd(t)
  \/ \E t \in BcUsers : BcStopGuard(t)
  \/ \E t \in BcUsers : BcStopEnd(t)
  \/ \E w \in BOOLEAN : BcAutorun(w)

SpecController == InitQuiet /\ [][NextController]_vars

Next ==
  \/ Start
  \/ StopCall
  \/ StopReturns
  \/ StopDone
  \/ LoopTop
  \/ \E o \in {"ca", "none", "raise"} : NextCA(o)
  \/ \E ok \in BOOLEAN : CopyMeta(ok)
  \/ SayReturns
  \/ LockGranted
  \/ \E ok \in BOOLEAN, b \in DevBalances : RpcReturns(ok, b)
  \/ \E o \in TxOutcomes : TxAttempt(o)
  \/ ChildTasksStart
  \/ TimerFires
  \/ ProfitUpdate
  \/ WaitReturns
  \/ \E w \in {"timer", "wait", "pnl"} : ChildCancelled(w)
  \/ AwaitChildReturns
  \/ AlertReturns
  \/ WorkerCancelled
  \/ \E u \in Users : UserCall(u)
  \/ \E u \in Users : UserGranted(u)
  \/ \E u \in Users : UserExit(u)
  \/ UpdateDev

Spec == Init /\ [][Next]_vars

\* the orchestrator together with an operator who calls set_config
NextConfig ==
  \/ \E c \in [mode : Modes, cycle_timeout_sec : TimeoutChoices] : SetConfig(c)
  \/ Next

SpecConfig == InitQuiet /\ [][NextConfig]_vars

TypeOK ==
  /\ worker \in {"none", "running", "done"}
  /\ pc \in AllPcs
  /\ attempt \in 0..DefaultMaxRetries
  /\ locked \in BOOLEAN
  /\ woken => ~locked /\ waiters # <<>>

\* ---- properties ----
\* callers inside the region guarded by WalletManager._dev_lock
InsideRegion ==
  {u \in Users : upc[u] = "inside"}
    \cup (IF worker = "running" /\ pc \in LockHeldPcs THEN {"cycle"} ELSE {})

\* C1: in one cycle the withdraw transaction is submitted at most once,
\* whatever combination of timer expiry, profit update and stop() occurs.
C1_WithdrawAtMostOnce == sent["withdraw"] <= 1

\* a cycle in which the timer expired, a profit update arrived and stop() hit
C1_Witness ==
  /\ expired
  /\ profitSeen
  /\ stopHit = "cancel_pending"
  /\ stopPc = "returned"
  /\ sent["init_pool"] > 0

\* C2: with cycle_timeout > 0, no profit update and no stop(), a cycle whose
\* pool-initialize transaction was sent submits the withdraw after the timer
\* expires, and the PnL task ends by cancellation, not by failure.
C2_TimeoutWithdraws ==
  (/\ cfg.cycle_timeout_sec > 0
   /\ expired
   /\ ~profitSeen
   /\ ~stopEvent /\ stopPc = "idle" /\ starts = 1
   /\ sent["init_pool"] > 0
   /\ pc \notin InCycle)
  => (sent["withdraw"] >= 1 /\ pnlTask # "failed")

\* C3: during Monitoring the PnL task is subscribed through
\* WsHub.monitor_account_lamports, and a vault update reaching the threshold
\* before the timer expires sets the profit event and the WS stop event.
C3_ProfitSetsEvents ==
  /\ (pc = "wait" /\ pnlTask # "pending") => pnlTask = "subscribed"
  /\ profitSeen => (pnlEvent /\ wsStop)

\* C4: with cycle_timeout = 0 the timer never fires: a monitoring cycle with no
\* profit update and no stop() stays in asyncio.wait and submits no withdraw.
C4_ZeroTimeoutBlocks ==
  (/\ cfg.cycle_timeout_sec = 0
   /\ pnlTask # "none"
   /\ ~profitSeen
   /\ ~stopEvent /\ stopPc = "idle" /\ starts = 1)
  => (timerTask # "done" /\ pc = "wait" /\ sent["withdraw"] = 0)

\* C5: when stop() interrupts a cycle, the PnL and timer tasks are cancelled,
\* and a withdraw is attempted iff the pool-initialize transaction was sent.
C5_StopWithdrawsIffPool ==
  (stopPc = "returned" /\ stopHit \in InCycle)
  => /\ ~Alive(pnlTask) /\ ~Alive(timerTask)
     /\ (sent["init_pool"] > 0) <=> (sent["withdraw"] > 0)

\* no task the orchestrator spawned is alive
NoTaskAlive ==
  /\ worker # "running"
  /\ ~Alive(pnlTask) /\ ~Alive(timerTask) /\ ~Alive(pnlWaitTask)
  /\ leaked = 0

\* C6: at the step where stop() returns, no task spawned by the orchestrator
\* (worker, PnL monitor, timer, profit-event wait) is alive.
C6_NoTaskAfterStop ==
  [][(stopPc # "returned" /\ stopPc' = "returned") => NoTaskAlive']_vars

\* C7: in one cycle the mint transaction has returned before the pool
\* transaction is sent, the pool transaction has returned before the PnL
\* monitor is spawned, and the monitor has ended before the withdraw is sent.
C7_StepsOrdered ==
  /\ sent["init_pool"] > 0 => "create_token" \in returned
  /\ pnlTask # "none" => "init_pool" \in returned
  /\ sent["withdraw"] > 0 => (pnlTask # "none" /\ ~Alive(pnlTask))

\* the monitor has been spawned after both transactions went out
C7_Witness ==
  /\ pc = "wait"
  /\ pnlTask = "failed"
  /\ sent["create_token"] = 1
  /\ sent["init_pool"] = DefaultMaxRetries

\* C8: if build_and_send of the mint or the pool transaction fails, the
\* cycle ends before Monitoring: no PnL task, no withdraw, and on_alert called.
C8_FailedTxAborts ==
  failedAt \in {"create_token", "init_pool"}
  => /\ pnlTask = "none"
     /\ sent["withdraw"] = 0
     /\ excAlerts = 1
     /\ pc \in {"alert", "end"}

\* the pool transaction was sent and failed; the alert is being delivered
C8_Witness ==
  /\ failedAt = "init_pool"
  /\ sent["init_pool"] > 0
  /\ pc = "alert"

\* C9: after a cycle raised a non-cancellation exception and on_alert was
\* called, working_loop is still running (absent any stop()).
C9_LoopSurvivesException ==
  (excAlerts > 0 /\ ~stopEvent /\ stopPc = "idle") => worker = "running"

\* C10: at most one of {cycle in dev_cycle(), distribute_lamports,
\* withdraw_to_fund, rollover_dev} is inside the region guarded by the dev lock.
C10_DevMutex == Cardinality(InsideRegion) <= 1

\* the cycle holds the lock while two locked methods queue behind it
C10_Witness ==
  /\ worker = "running"
  /\ pc \in InCycle
  /\ Len(waiters) = 2

\* C11: while the cycle is inside dev_cycle(), WalletManager._dev is the
\* keypair pinned at __aenter__, and a funding transfer built in the cycle is
\* addressed to that pinned keypair.
C11_DevPinned ==
  (worker = "running" /\ pc \in LockHeldPcs)
  => /\ dev = devSnapshot
     /\ fundIx.to \in {-1, devSnapshot}

\* C12: the dev lock is never left held: whenever neither the cycle nor a
\* locked WalletManager method is inside the guarded region the lock is free,
\* whether the cycle left by completion, by an exception or by stop().
C12_LockReleased == (InsideRegion = {}) => ~locked

\* stop() cancelled the cycle inside the region and a locked method got in after
C12_Witness ==
  /\ stopPc = "returned"
  /\ stopHit \in LockHeldPcs
  /\ worker = "done"
  /\ \E u \in Users : upc[u] = "inside"

\* C13: once the funding check of an iteration has run (lock held, mint not
\* yet created), a balance below the seed target has led to one fund->dev
\* transfer of exactly target - balance lamports issued without taking the lock
\* again, and a balance that covers the target has led to no transfer.
C13_FundingExact ==
  (worker = "running" /\ pc \in LockHeldPcs \ {"fund_balance"})
  => /\ locked
     /\ \A i \in 1..Len(waiters) : waiters[i] # "cycle"
     /\ bal < SeedTarget =>
          /\ fundIx.lamports = SeedTarget - bal
          /\ sent["fund_transfer"] = (IF pc = "fund_transfer" THEN 0 ELSE 1)
     /\ bal >= SeedTarget =>
          /\ fundIx = NoIx
          /\ sent["fund_transfer"] = 0
     /\ pc \in {"fund_transfer", "say_funded"} => sent["create_token"] = 0

\* the dev wallet was 0.35 SOL short and the mint is about to be created
C13_Witness ==
  /\ worker = "running"
  /\ pc = "create_token"
  /\ bal = SeedTarget - 350000000
  /\ fundIx.lamports = 350000000
  /\ sent["fund_transfer"] = 1

\* on_change calls the claimed rule makes for the notifications ns, the last
\* emitted value being last (-1: none yet)
RECURSIVE ExpectedCalls(_, _)
ExpectedCalls(ns, last) ==
  IF ns = <<>> THEN <<>>
  ELSE IF last = -1 \/ Head(ns) # last
  THEN <<Head(ns)>> \o ExpectedCalls(Tail(ns), Head(ns))
  ELSE ExpectedCalls(Tail(ns), last)

\* C14: on_change is called for the first notification and afterwards only
\* for a notification whose lamports differ from the value emitted last;
\* repeated notifications of an unchanged value produce no further call.
C14_EmitOnChangeOnly == calls = ExpectedCalls(notifs, -1)

\* C15: every accountSubscribe carries the pubkey, encoding and commitment
\* the monitor was started with; when reader or pinger ended and the monitor
\* is not stopped, the runner closes the connection and heads for a new
\* connect (directly or through the backoff sleep), never for the exit.
C15_ReconnectResubscribes ==
  /\ [](\A i \in 1..Len(subs) :
          subs[i] = [method |-> "accountSubscribe", pubkey |-> hubArgs.pubkey,
                     encoding |-> "jsonParsed",
                     commitment |-> hubArgs.commitment])
  /\ [][(/\ hubPc \in {"wait", "cancel_pending"}
         /\ hubPc' \notin {"wait", "cancel_pending"}
         /\ ~hubStop)
        => (~connOpen' /\ hubPc' \in {"connect", "backoff"})]_vars
  /\ [][(hubPc = "backoff" /\ hubPc' # "backoff" /\ ~hubStop)
        => hubPc' = "connect"]_vars
  /\ [][(hubPc = "connect" /\ hubPc' = "subscribe") => connOpen']_vars
  /\ [][(hubPc = "subscribe" /\ hubPc' = "wait")
        => Len(subs') = Len(subs) + 1]_vars

\* the monitor subscribed a second time, with a non-default commitment
C15_Witness ==
  /\ Len(subs) = 2
  /\ hubPc = "wait"
  /\ ~hubStop
  /\ hubArgs.commitment = "confirmed"
  /\ pinger = "running"

\* C16: when the reader or the pinger of a connection exited abnormally (the
\* reader raised, the ping failed) and the monitor is not stopped, the next
\* connect comes after a backoff sleep of non-zero length.
C16_BackoffBeforeReconnect ==
  (/\ hubPc = "connect"
   /\ conns > 0
   /\ ~hubStop
   /\ (reader = "raised" \/ pinger = "failed"))
  => delay > 0

\* C17: when on_change raises, _read_loop goes on reading: the reader task
\* keeps running and neither the connection nor the runner is affected.
C17_HandlerErrorSwallowed ==
  [][handlerErrs' > handlerErrs
     => (reader' = "running" /\ connOpen' = connOpen /\ hubPc' = hubPc)]_vars

\* after a handler exception a later notification of the same connection is
\* being delivered to the handler
C17_Witness ==
  /\ handlerErrs >= 1
  /\ Len(calls) = 2
  /\ reader = "handler"
  /\ conns = 1
  /\ connOpen

\* C18 as stated: at no time have more than max_calls wait() calls completed
\* within the last per_seconds, and every caller that is inside wait()
\* leaves it as time advances.
C18_RateLimitedAndLive ==
  /\ [](Len(recent) <= LimMaxCalls)
  /\ \A c \in LimCallers : (limPc[c] # "idle") ~> (limPc[c] = "idle")

\* C18 amended: at no time have more than max_calls wait() calls completed
\* within the last per_seconds, and once no new wait() call is begun every
\* caller that is inside wait() leaves it as time advances.
C18_RateLimited ==
  /\ [](Len(recent) <= LimMaxCalls)
  /\ \A c \in LimCallers :
        (limPc[c] # "idle" /\ ~limOpen) ~> (limPc[c] = "idle")

\* the window is full, one caller sleeps, and a call has completed after the
\* first window passed
C18_Witness ==
  /\ Len(recent) = LimMaxCalls
  /\ limCompleted > LimMaxCalls
  /\ ~limOpen
  /\ \E c \in LimCallers : limPc[c] = "sleeping"

\* C19: after a func() call of _execute_with_retry, the retry loop is in its
\* backoff (to call func() again) exactly when the call came back with an RPC
\* error naming "429" or "Too Many Requests" or with an HTTP 429; it has
\* raised to the caller exactly when the call came back with any other
\* error; it has returned exactly when there was no error.
C19_RetryOnly429 ==
  LET o == lastOutcome
      limited == \/ /\ o.kind = "rpc_error"
                    /\ \E i \in 1..Len(o.msg) :
                          \/ o.msg[i] = "429"
                          \/ /\ i + 2 <= Len(o.msg)
                             /\ SubSeq(o.msg, i, i + 2)
                                  = <<"Too", "Many", "Requests">>
                 \/ o.kind = "http_error" /\ o.status = 429
      failed == o.kind \in {"rpc_error", "http_error", "other_exception"}
  IN /\ (retryPc = "backoff") <=> limited
     /\ (retryPc = "raised") <=> (failed /\ ~limited)
     /\ (retryPc = "returned") <=> (o.kind = "ok")

\* a third func() call came back with an RPC error naming 429
C19_Witness ==
  /\ retryPc = "backoff"
  /\ retryAttempts = 3
  /\ lastOutcome.kind = "rpc_error"

\* C20: a call of get_latest_blockhash makes the RPC request, with processed
\* commitment, exactly when it finds the cache empty or older than 15 s, and
\* a value returned from the cache was at most 15 s old.
C20_BlockhashCache ==
  /\ bhLastCall.made =>
       (bhLastCall.rpc <=> (bhLastCall.empty \/ bhLastCall.age > 15))
  /\ bhLastRet.fromCache => (bhLastRet.age <= 15 /\ bhLastRet.value # -1)
  /\ bhRequest \in {"", "processed"}

\* a value was served from the cache at the age of exactly 15 s, after the
\* cache had been refreshed once
C20_Witness ==
  /\ bhLastRet.fromCache
  /\ bhLastRet.age = 15
  /\ bhLastRet.value = 2


\* C21: build_and_send_transaction submits the transaction at most max_retries
\* times; an attempt that fails and is not the last is followed by a sleep of
\* 0.5^attempt seconds and by the next attempt; when the last attempt fails
\* the call raises.
C21_RetriesAndWaits ==
  /\ bsSends <= bsArgs.max_retries
  /\ \A a \in bsFailed :
       IF a = bsArgs.max_retries - 1
       THEN bsPc = "raised"
       ELSE /\ \E i \in 1..Len(bsSlept) :
                 /\ bsSlept[i].attempt = a
                 /\ bsSlept[i].ms = CASE a = 0 -> 1000
                                      [] a = 1 -> 500
                                      [] a = 2 -> 250
                                      [] OTHER -> 125
            /\ (bsPc = "sleep" /\ bsAttempt = a) \/ bsAttempt > a

\* a call with max_retries = 3 slept twice and failed its last attempt
C21_Witness ==
  /\ bsPc = "raised"
  /\ bsArgs.max_retries = 3
  /\ Len(bsSlept) = 2
  /\ bsFailed = {0, 1, 2}

\* C22: build_and_send_transaction returns confirmed = true exactly when one
\* of at most max_confirm_retries status polls saw a status with non-null
\* confirmations, on the plain path and on the Jito path.
C22_ConfirmedIffObserved ==
  /\ bsPolls <= bsArgs.max_confirm_retries
  /\ bsPc = "returned" => (bsSuccess <=> bsObserved)

\* C23: a transaction of more than 1232 bytes is never submitted to the
\* network: the call fails before any send.
C23_OversizeRejected ==
  bsArgs.size > 1232 => (bsSends = 0 /\ bsPc \in {"idle", "raised"})

\* C37: build_and_send_transaction stops at the first successful attempt: once
\* an attempt has sent the transaction and seen it confirmed the call has
\* returned and no further send is made, so the number of submissions is one
\* more than the number of failed attempts (exactly one when the first
\* attempt succeeds), whatever max_retries is.
C37_StopsAtFirstSuccess ==
  bsObserved => /\ bsPc = "returned"
                /\ bsSends = Cardinality(bsFailed) + 1

\* C24: for valid inputs with fee_bps > 0 the planner returns the shortest
\* chain gross[0..k] that starts at max_gross, continues each hop with the net
\* of the hop before, and whose last hop's net is <= target_net (or 0);
\* plan(900000, 1000, 1000000) is [1000000] and plan(500000, 1000, 1000000)
\* has 7 entries ending in 531441.
C24_PlannerChain ==
  LET l == plan.result.gross
      n == Len(l)
      net(g) == LET f == (g * plan.fee_bps) \div 10000
                    c == IF plan.max_fee = 0 \/ f <= plan.max_fee
                         THEN f ELSE plan.max_fee
                IN IF g - c < 0 THEN 0 ELSE g - c
  IN
  (/\ plan.target_net > 0
   /\ plan.max_gross > 0
   /\ plan.fee_bps \in 1..10000
   /\ plan.max_fee >= 0)
  => /\ plan.result.kind = "list"
     /\ n >= 1
     /\ l[1] = plan.max_gross
     /\ \A i \in 1..(n - 1) : l[i + 1] = net(l[i]) /\ net(l[i]) > plan.target_net
     /\ net(l[n]) <= plan.target_net \/ net(l[n]) = 0
     /\ (plan.target_net = 900000 /\ plan.fee_bps = 1000
           /\ plan.max_gross = 1000000 /\ plan.max_fee = 0)
          => l = <<1000000>>
     /\ (plan.target_net = 500000 /\ plan.fee_bps = 1000
           /\ plan.max_gross = 1000000 /\ plan.max_fee = 0)
          => (n = 7 /\ l[n] = 531441)

\* C25: once a transaction of hide_supply has failed no further transaction
\* is sent, and the call does not report success.
C25_FailureAborts ==
  LET n == Len(hsSigs) IN
  (\E i \in 1..n : hsSigs[i] = "")
  => /\ \A i \in 1..(n - 1) : hsSigs[i] # ""
     /\ hsPc \notin {"flush", "final_flush"}
     /\ hsPc = "done" => ~hsResult.success


\* C26: with profit_threshold_sol = 0, once on_value has seen a lamport value
\* that differs from the initially deposited amount the profit event is set.
C26_FirstDeltaTriggers ==
  (/\ ovInit # -1
   /\ ovThreshold = 0
   /\ \E i \in 1..Len(ovUpdates) : ovUpdates[i] # ovInit)
  => ovEvent


\* C27: a mode outside {manual, auto} is rejected at every operator boundary:
\* set_param answers 'mode must be manual|auto' and changes nothing, and the
\* mode of the orchestrator's and of the controller's configuration is always
\* manual or auto.
C27_ModeRejectedAtBoundary ==
  /\ cfg.mode \in {"manual", "auto"}
  /\ ctl.mode \in {"manual", "auto"}
  /\ ctlSaved.mode \in {"manual", "auto"}
  /\ (ctlLast.key = "mode" /\ ctlLast.value \notin {"manual", "auto"})
       => (ctlLast.error = "mode must be manual|auto" /\ ctl = ctlLast.before)


\* C28: a set_config call succeeds only while no working-loop task is alive;
\* made while the worker task is alive it raises and leaves the active
\* configuration as it was; and nothing else changes the configuration.
C28_SetConfigOnlyIdle ==
  [][/\ setConfigs' # setConfigs =>
          IF worker = "running"
          THEN setConfigRaised' /\ cfg' = cfg
          ELSE ~setConfigRaised'
      /\ cfg' # cfg => (setConfigs' # setConfigs /\ worker # "running")]_vars

\* a set_config call with another configuration was refused while the worker
\* was inside a cycle
C28_Witness ==
  /\ setConfigs = 1
  /\ setConfigRaised
  /\ worker = "running"
  /\ pc = "wait"


\* C29: in every pool descriptor token0_mint is below token1_mint in the
\* order of their bytes, each amount is on the side of its mint (lamports on
\* the wrapped-SOL side, the token amount on the other), and liq_vault is the
\* vault of the wrapped-SOL mint.
C29_PoolOrdered ==
  pool # NoPool =>
    LET wsol == <<6, 155>>
        num(m) == m[1] * 256 + m[2]
    IN /\ num(pool.token_mint0) < num(pool.token_mint1)
       /\ {pool.token_mint0, pool.token_mint1} = {pool.created, wsol}
       /\ pool.token_mint0 = wsol =>
            /\ pool.token_mint0_amount = pool.lamports_amount
            /\ pool.token_mint1_amount = pool.token_amount
            /\ pool.liq_vault = pool.token0_vault
       /\ pool.token_mint1 = wsol =>
            /\ pool.token_mint1_amount = pool.lamports_amount
            /\ pool.token_mint0_amount = pool.token_amount
            /\ pool.liq_vault = pool.token1_vault
       /\ pool.liq_vault.mint = wsol
       /\ pool.liq_vault.pool = pool.pool_state

\* a descriptor for a mint above the wrapped-SOL mint: wrapped SOL is token 0
C29_Witness ==
  /\ pool # NoPool
  /\ pool.created = <<200, 0>>
  /\ pool.token_mint0 = <<6, 155>>
  /\ pool.liq_vault = pool.token0_vault


\* C30: when _execute_with_retry sleeps after the n-th 429 outcome in a row
\* of one call (HTTP 429 or an RPC error naming 429), the base delay before
\* jitter is 0.2 s doubled n - 1 times, at most 5 s, and the sleep itself is
\* at most 5 s.
C30_BackoffDoubles ==
  retryPc = "backoff" =>
    LET doubled == 200 * (2 ^ (retryAttempts - 1))
    IN /\ sleepBase = IF doubled < 5000 THEN doubled ELSE 5000
       /\ sleepActual <= 5000


\* C31: a blockhash that get_latest_blockhash serves from its cache was not
\* issued by the chain before a blockhash that some call has already
\* returned, whatever the interleaving of the concurrent callers.
C31_BlockhashMonotonic ==
  (bhLastRet.made /\ bhLastRet.fromCache) => bhLastRet.value >= bhNewest


\* C32: for valid inputs the planner's continuity assertion does not fail, and
\* in a plan it returns each gross is the gross before it less that hop's
\* fee, min(floor(gross * fee_bps / 10000), max_fee) where a max_fee is set,
\* with the nets strictly decreasing.
C32_ChainContinuity ==
  LET l == plan.result.gross
      fee(g) == LET f == (g * plan.fee_bps) \div 10000
                IN IF plan.max_fee > 0 /\ plan.max_fee < f
                   THEN plan.max_fee ELSE f
  IN
  (/\ plan.target_net > 0
   /\ plan.max_gross > 0
   /\ plan.fee_bps \in 1..10000
   /\ plan.max_fee >= 0)
  => /\ plan.result.kind # "AssertionError"
     /\ plan.result.kind = "list" =>
          \A i \in 1..(Len(l) - 1) :
            /\ l[i + 1] = l[i] - fee(l[i])
            /\ l[i + 1] - fee(l[i + 1]) < l[i] - fee(l[i])


\* C33: a call of the planner ends after at most 100 passes of its loop,
\* with a plan of at most 100 hops or with the hop-guard error, and it ends
\* with the hop-guard error only if the loop ran out of passes, not when the
\* loop had found the last hop.
C33_GuardOnlyWhenNeeded ==
  /\ lpHop <= 100
  /\ Len(lpList) <= 100
  /\ lpPc = "done" =>
       /\ lpResult.kind \in {"list", "RuntimeError"}
       /\ lpResult.kind = "RuntimeError" => ~lpBroke


\* C34: when hide_supply has returned success it reports last_net, the net of
\* the last planned hop, and burn_delta = max(0, last_net - target); the
\* last instruction it pushed is a burn of burn_delta that follows the last
\* transfer exactly when burn_delta is positive, and there is no other burn;
\* and when every transaction went through, dev then holds at most the
\* target.
C34_BurnToTarget ==
  (hsPc = "done" /\ hsResult.success) =>
    LET n == Len(hsPlan.hops)
        g == hsPlan.hops[n]
        lastNet == g - (g * 1000) \div 10000
        delta == IF lastNet > hsResult.target
                 THEN lastNet - hsResult.target ELSE 0
        m == Len(hsPushed)
        burns == {i \in 1..m : hsPushed[i].kind = "burn"}
    IN /\ hsResult.last_net = lastNet
       /\ hsResult.burn_delta = delta
       /\ IF delta > 0
          THEN /\ burns = {m}
               /\ hsPushed[m].amount = delta
               /\ hsPushed[m - 1].kind = "transfer"
               /\ hsPushed[m - 1].amount = g
          ELSE burns = {} /\ hsPushed[m].kind = "transfer"
       /\ (\A i \in 1..Len(hsSigs) : hsSigs[i] # "")
            => held[0] <= hsResult.target


\* C35: distribute_via_chain hands hop i (0..3) to build_and_send_transaction
\* with base_amount + (3 - i) * fee_lamports lamports, one hop at a time and
\* hop i + 1 only after the call for hop i has come back; an intermediate
\* wallet that has received its hop holds fee_lamports more than it sends
\* on, no balance is ever negative, and when all four hops have been
\* executed the destination has received exactly base_amount.
C35_ChainHops ==
  LET base == dvcArgs.base_amount
      F == dvcArgs.fee_lamports
      n == Len(dvcSubmitted)
  IN
  /\ \A k \in 1..n :
       /\ dvcSubmitted[k].hop = k - 1
       /\ dvcSubmitted[k].lamports = base + (3 - (k - 1)) * F
  /\ n <= 4
  /\ n - dvcHop = IF dvcPc = "inflight" THEN 1 ELSE 0
  /\ \A w \in 0..4 : dvcBal[w] >= 0
  /\ \A w \in 1..3 :
       ((w - 1) \in dvcLanded /\ w \notin dvcLanded /\ n > w)
         => dvcBal[w] = dvcSubmitted[w + 1].lamports + F
  /\ dvcLanded = {0, 1, 2, 3} => dvcBal[4] = base

\* all four hops were executed with the default fee_lamports, which the
\* chain's fee used up in every intermediate wallet
C35_Witness ==
  /\ dvcPc = "done"
  /\ dvcOk
  /\ dvcLanded = {0, 1, 2, 3}
  /\ dvcArgs.fee_lamports = 5000
  /\ dvcBal[4] = dvcArgs.base_amount
  /\ dvcBal[1] = 0 /\ dvcBal[2] = 0 /\ dvcBal[3] = 0


\* C36: the keypair that is the current dev has its file on disk, so has the
\* fund once the wallet manager is constructed, so has every temp wallet
\* handed out, and every keypair a submitted transfer pays into.
C36_PersistedBeforeFunds ==
  /\ wmDev # -1 => wmDev \in wmDisk
  /\ wmPc = "ready" => 0 \in wmDisk
  /\ wmTemps \subseteq wmDisk
  /\ wmTargets \subseteq wmDisk

\* a second dev was funded and a temp wallet was paid into, after a keypair
\* whose file could not be written
C36_Witness ==
  /\ wmDev > 1
  /\ wmDev \in wmTargets
  /\ wmTemps \cap wmTargets # {}
  /\ \E k \in 1..wmMade : k \notin wmDisk


\* C38: of the working-loop tasks one Bablo has created at most one is alive;
\* a start() call made while a task was alive created none, and a start()
\* call made while none was alive (before any start, after the worker ended,
\* after stop() returned) created one and left the stop flag clear.
C38_OneWorker ==
  /\ Cardinality(AliveTasks(lcTasks)) <= 1
  /\ lcLast.made =>
       IF lcLast.alive > 0
       THEN ~lcLast.created
       ELSE lcLast.created /\ ~lcLast.flag

\* a start() after a stop() that cancelled the first worker has returned made
\* the second task, which is alive with the stop flag clear
C38_Witness ==
  /\ lcLast.made /\ lcLast.afterStop /\ lcLast.created
  /\ lcWorker = 2
  /\ lcTasks[1] = "done"
  /\ lcTasks[2] = "running"
  /\ ~lcStopEvent


\* C39: of the working-loop tasks the controller has started at most one is
\* alive, and a live one belongs to the Bablo that controller.bablo refers to.
C39_OneReachableWorker ==
  /\ Cardinality(LiveWorkers(bcWorker)) <= 1
  /\ \A k \in LiveWorkers(bcWorker) : bcBablo = k

====
